---- MODULE Spec2Model ----
(***************************************************************************)
(* nix-sandwich: the substituter's metadata and archive handlers, the base *)
(* catalog, the differ's framed response and the NAR expander/collapser,   *)
(* modelled as state machines translated from the Go sources.              *)
(*                                                                         *)
(* The specifications that share the module:                               *)
(*   Spec         substituter handlers (subst.go) over a small catalog     *)
(*   SpecCatalog  catalog.set / catalog.findBase on bounded inputs         *)
(*   SpecDiffer   differServer.differ (differ.go), concurrent requests     *)
(*   SpecNar      ExpandNar followed by CollapseNar (narexpander.go)       *)
(*   SpecSnapshot catalog.set / update running beside findBase's scan      *)
(*   SpecSys      concurrent sysChecker.getCached calls (main.go)          *)
(*   SpecLoad     the substituter's two semaphores under many requests     *)
(*   SpecProc     the subprocesses started for a request, and its context  *)
(*   SpecWait     tasks waiting at the semaphores, and cancellation        *)
(*   SpecBuf      the expander's pipeline and its byte semaphore           *)
(*   SpecExpand   getNarCommon's decoding: the base stream and Expand      *)
(*   SpecKey      cache keys of differ requests                            *)
(*   SpecIdle     the idle exit of a socket-activated substituter          *)
(*   SpecStore    the local store, catalog refreshes and the recent memo   *)
(*   SpecStr      findDashes and matchLen on drawn strings                 *)
(*   SpecTee      the differ's write-through cache: tee, pipe and uploader *)
(*   SpecStage    the stages getNarCommon starts, and when they end        *)
(* Each one holds the variables of the other subsystems at a parked value. *)
(***************************************************************************)
EXTENDS Integers, Sequences, FiniteSets, TLC

VARIABLES
    \* ---- substituter (subst.go: type subst, one entry per connection) ----
    bt,        \* catalog.bt: the published snapshot, a set of btItem
    recents,   \* subst.recents: LRU, most recently used first, of [key, val]
    nisem,     \* subst.nisem: units currently held
    nsem,      \* subst.nsem: units currently held
    nreq,      \* number of requests accepted so far; newId() = nreq + 1
    cacheOn,   \* len(cfg.CacheReadURL) > 0
    pc,        \* per connection: position of the handler
    rq,        \* per connection: the request and the handler's locals
    rw,        \* per connection: the http.ResponseWriter
    an,        \* per connection: records the handler gave to writeAnalytics
    obs,       \* per connection: what the handler did (observations)
    \* ---- catalog on bounded inputs ----
    cbt,       \* catalog.bt
    cord,      \* the items of catalog.bt in the order they were inserted
    cres,      \* last findBase call: its arguments and result
    \* ---- differ (differ.go: differServer.differ, one request) ----
    dpc, dreq, dparts, dobs,   \* per request: position, request, parts, observations
    dsem,      \* differServer.diskSem, dlSem, deltaSem: units currently held
    \* ---- NAR expander / collapser ----
    npc, nin, nexp, nout, nerr,
    \* ---- catalog snapshots (catalog.go: set, update, findBase) ----
    theap,     \* the B-trees on the heap: contents by tree id
    tnext,     \* number of trees allocated so far
    tpub,      \* catalog.bt: the id of the published tree
    tupd,      \* the writer (set, or update in the start goroutine)
    trd,       \* a reader inside findBase
    \* ---- system-tag cache (main.go: sysChecker.getCached) ----
    sycache,   \* sysChecker.cache: the hashes that have a cached system tag
    syflight,  \* sysChecker.g: per hash, the singleflight call in flight (0: none)
    sypc,      \* per caller: position inside getCached
    syruns,    \* per hash: how many times the resolver f has run
    \* ---- substituter under load (subst.go: nisem, nsem) ----
    ld,        \* handlers by position: waiting for a unit, holding one
    \* ---- subprocesses of a request (exec.Command, exec.CommandContext) ----
    pr,        \* per request: component, context, running subprocesses
    \* ---- tasks at the semaphores (semaphore.Weighted.Acquire) ----
    wsem,      \* per semaphore: units held, waiters in order
    wt,        \* per task: semaphore, context, position
    \* ---- expander pipeline (narexpander.go: readAndExpand, writeEnts) ----
    bf,       \* reader, ents channel, writer, n.sem
    \* ---- decoding (subst.go: getNarCommon; algo.go: Expand) ----
    ex,       \* per request: algorithm, filter, base stream, decoder
    \* ---- cache keys (catalog.go: cacheKey) ----
    ck,       \* per slot: a differ request and the key computed for it
    \* ---- idle exit (subst.go: serve, exitOnIdle, alive) ----
    idl,      \* clock, lastReq, requests in flight, exited
    \* ---- local store, catalog and memo (catalog.go: update; subst.go: putRecent) ----
    ls,       \* packages on disk, catalog.bt, subst.recents
    \* ---- string helpers (catalog.go: findDashes, matchLen) ----
    sf,       \* two strings and the results computed for them
    \* ---- differ's cache writer (differ.go: prepareCacheWriter, teeWriter) ----
    tee,      \* body writes, the upload pipe, the uploader
    \* ---- archive pipeline stages (subst.go: getNarCommon) ----
    sg        \* per request: handler, dumper, expander, decoder, collapse copy task

substVars  == <<bt, recents, nisem, nsem, nreq, cacheOn, pc, rq, rw, an, obs>>
catVars    == <<cbt, cres, cord>>
differVars == <<dpc, dreq, dparts, dobs, dsem>>
narVars    == <<npc, nin, nexp, nout, nerr>>
snapVars   == <<theap, tnext, tpub, tupd, trd>>
sysVars    == <<sycache, syflight, sypc, syruns>>
waitVars   == <<wsem, wt>>
vars       == <<substVars, catVars, differVars, narVars, snapVars, sysVars, ld, pr, waitVars, bf, ex, ck, idl, ls, sf, tee, sg>>

-----------------------------------------------------------------------------
(* Bounds of the model. *)

NumConns   == 2   \* client connections served concurrently
MaxReqs    == 2   \* requests accepted in one behaviour
RecentsCap == 1   \* lru.New(10000), scaled so that eviction is reachable
MaxChunks  == 1   \* archive chunks a decoder writes before it returns
IntBits    == 4   \* width of Go's int and uint64, scaled from 64
MaxCat     == 2   \* entries in the catalog of SpecCatalog
MaxDelta   == 2   \* delta chunks algo.Create writes to the body part
MaxEnts    == 2   \* entries of an input archive of SpecNar
NumDiffers == 2   \* differ requests served concurrently

Conns == 1..NumConns

-----------------------------------------------------------------------------
(* Strings.  Store names are sequences of byte values so that findDashes,  *)
(* matchLen and the range scan work on characters.                         *)

Dash == 45

\* const.go: the names of the differ's multipart parts
differHeaderName  == "header"
differBodyName    == "body"
differTrailerName == "trailer"

Min2(a, b) == IF a < b THEN a ELSE b

RECURSIVE StrLess(_, _)
StrLess(a, b) ==
    IF b = <<>> THEN FALSE
    ELSE IF a = <<>> THEN TRUE
    ELSE IF Head(a) # Head(b) THEN Head(a) < Head(b)
    ELSE StrLess(Tail(a), Tail(b))

HasPrefix(s, p) == Len(s) >= Len(p) /\ SubSeq(s, 1, Len(p)) = p
HasSuffix(s, x) == Len(s) >= Len(x) /\ SubSeq(s, Len(s) - Len(x) + 1, Len(s)) = x
TrimPrefix(s, p) == IF HasPrefix(s, p) THEN SubSeq(s, Len(p) + 1, Len(s)) ELSE s
TrimSuffix(s, x) == IF HasSuffix(s, x) THEN SubSeq(s, 1, Len(s) - Len(x)) ELSE s

\* strings.IndexByte(s[i:], '-') for 0-based i; -1 when there is none
RECURSIVE IndexDash(_, _)
IndexDash(s, i) ==
    IF i >= Len(s) THEN -1
    ELSE IF s[i + 1] = Dash THEN 0
    ELSE LET r == IndexDash(s, i + 1) IN IF r < 0 THEN -1 ELSE r + 1

\* the loop of findDashes from 0-based position i
RECURSIVE FindDashesFrom(_, _)
FindDashesFrom(s, i) ==
    IF i >= Len(s) THEN <<>>
    ELSE LET j == IndexDash(s, i) IN
         IF j < 0 THEN <<>>
         ELSE <<i + j>> \o FindDashesFrom(s, i + j + 1)

\* findDashes with the loop started one byte late (a faulty variant)
FindDashesOff(s) == FindDashesFrom(s, 1)
findDashes(s) == FindDashesFrom(s, 0)

RECURSIVE MatchFrom(_, _, _)
MatchFrom(a, b, i) ==
    IF i < Len(a) /\ i < Len(b) /\ a[i + 1] = b[i + 1]
    THEN MatchFrom(a, b, i + 1) ELSE i

\* matchLen stopping after the first byte (a faulty variant)
MatchLenOne(a, b) == Min2(1, MatchFrom(a, b, 0))
matchLen(a, b) == MatchFrom(a, b, 0)

-----------------------------------------------------------------------------
(* Catalog (catalog.go). *)

sysUnknown == 0

\* "source"
SourceName == <<115, 111, 117, 114, 99, 101>>

\* useExpandNarREs.matchAny: of the patterns only `^.*-.*-man$` can match a
\* name built from the alphabets used here (the others need a literal
\* "linux-", "...-firmware-", ... prefix).
ManSuffix == <<Dash, 109, 97, 110>>
UseExpandNar(rest) ==
    /\ HasSuffix(rest, ManSuffix)
    /\ Len(findDashes(SubSeq(rest, 1, Len(rest) - Len(ManSuffix)))) >= 1

\* skipREs.matchAny: `\.(drv|lock|bz2|gz|xz)$`; ".gz" is the one spelled here
GzExt == <<46, 103, 122>>
SkipName(rest) == HasSuffix(rest, GzExt)

itemLess(a, b) ==
    \/ StrLess(a.rest, b.rest)
    \/ (a.rest = b.rest /\ a.hash < b.hash)

\* the items of s in ascending itemLess order (the B-tree's iteration order)
RECURSIVE Ascending(_)
Ascending(s) ==
    IF s = {} THEN <<>>
    ELSE LET m == CHOOSE x \in s : \A y \in s \ {x} : itemLess(x, y)
         IN <<m>> \o Ascending(s \ {m})

\* bt.AscendRange(btItem{rest: start}, btItem{rest: start + "\xff"}, ...)
InRange(i, start) ==
    /\ ~itemLess(i, [rest |-> start, hash |-> 0, sys |-> sysUnknown])
    /\ itemLess(i, [rest |-> start \o <<255>>, hash |-> 0, sys |-> sysUnknown])

NoItem == [rest |-> <<>>, hash |-> 0, sys |-> sysUnknown]

\* faulty variants of the callback: first best kept on ties, system tag
\* ignored, dash count ignored
ScanStepStrict(acc, i, req, reqSys, nd) ==
    IF i.sys = reqSys /\ Len(findDashes(i.rest)) = nd /\ matchLen(req, i.rest) > acc.bestmatch
    THEN [bestmatch |-> matchLen(req, i.rest), best |-> i]
    ELSE acc

ScanStepAnySys(acc, i, req, reqSys, nd) ==
    IF Len(findDashes(i.rest)) = nd /\ matchLen(req, i.rest) >= acc.bestmatch
    THEN [bestmatch |-> matchLen(req, i.rest), best |-> i]
    ELSE acc

ScanStepAnyDashes(acc, i, req, reqSys, nd) ==
    IF i.sys = reqSys /\ matchLen(req, i.rest) >= acc.bestmatch
    THEN [bestmatch |-> matchLen(req, i.rest), best |-> i]
    ELSE acc

\* the callback of AscendRange: best is overwritten on >=
ScanStep(acc, i, req, reqSys, nd) ==
    IF i.sys = reqSys /\ Len(findDashes(i.rest)) = nd /\ matchLen(req, i.rest) >= acc.bestmatch
    THEN [bestmatch |-> matchLen(req, i.rest), best |-> i]
    ELSE acc

RECURSIVE Scan(_, _, _, _, _)
Scan(items, acc, req, reqSys, nd) ==
    IF items = <<>> THEN acc
    ELSE Scan(Tail(items), ScanStep(acc, Head(items), req, reqSys, nd), req, reqSys, nd)

\* findBase's `start`: req up to and including its first dash, or all of req
StartOf(req) ==
    LET dashes == findDashes(req)
    IN IF Len(dashes) = 0 THEN req ELSE SubSeq(req, 1, dashes[1] + 1)

NoSP == [hash |-> 0, rest |-> <<>>]

NoBase(e) ==
    [err |-> e, storePath |-> NoSP, narFilter |-> "", item |-> NoItem]

\* catalog.findBase(ni, req); reqSys is sysChecker.getSysFromNarInfo(ni)
findBase(snapshot, req, reqSys) ==
    IF Len(req) < 3 THEN NoBase("name too short")
    ELSE IF req = SourceName THEN NoBase("can't handle 'source'")
    ELSE LET start == StartOf(req)
             inr   == Ascending({i \in snapshot : InRange(i, start)})
             r     == Scan(inr, [bestmatch |-> 0, best |-> NoItem],
                           req, reqSys, Len(findDashes(req)))
         IN IF r.best.rest = <<>> THEN NoBase("no base found")
            ELSE [err |-> "",
                  storePath |-> [hash |-> r.best.hash, rest |-> r.best.rest],
                  narFilter |-> IF UseExpandNar(r.best.rest) THEN "expv2" ELSE "",
                  item |-> r.best]

\* catalog.addBatch for one directory name n = hash-rest whose system the
\* sysChecker resolves to sys
addBatch(nt, n, sys) ==
    IF ~UseExpandNar(n.rest) /\ SkipName(n.rest) THEN nt
    ELSE IF \E i \in nt : i.rest = n.rest /\ i.hash = n.hash THEN nt
    ELSE nt \cup {[rest |-> n.rest, hash |-> n.hash, sys |-> sys]}

-----------------------------------------------------------------------------
(* Substituter (subst.go): data. *)

\* Go's int(x) for a uint64 x, at the model's width
ToInt(v) == IF v >= 2 ^ (IntBits - 1) THEN v - 2 ^ IntBits ELSE v

\* cfg.MinFileSize, cfg.MaxFileSize, cfg.MaxNarSize (scaled)
MinFileSize == 2
MaxFileSize == 5
MaxNarSize  == 6

\* default.nix:115: the analytics sink is open unless configured empty
analyticsOpen == TRUE

\* store hashes a client asks for, and what the upstream says about them
ReqHashes == {1, 2}
NameA1 == <<97, Dash, 49>>   \* "a-1"
NameA2 == <<97, Dash, 50>>   \* "a-2"
NameA0 == <<97, Dash, 48>>   \* "a-0"
NameOf(h) == IF h = 1 THEN NameA1 ELSE NameA2
SysOfReq(h) == 1
NarHashOf(h) ==
    IF h = 1 THEN [algo |-> "sha256", digest |-> "d1"]
    ELSE [algo |-> "sha512", digest |-> "d2"]

FileSizes == {1, 3, 6, 9}
NarSizes  == {4, 7, 12}

NoHash == [algo |-> "", digest |-> ""]
NoNI == [StorePath |-> [hash |-> 0, name |-> <<>>], URL |-> <<>>,
         Compression |-> "", FileHash |-> NoHash, FileSize |-> 0,
         NarHash |-> NoHash, NarSize |-> 0, References |-> {}, Sig |-> ""]

\* the record narinfo.Parse returns for the upstream's answer about h
UpstreamNarInfo(h, fs, ns) ==
    [StorePath |-> [hash |-> h, name |-> NameOf(h)],
     URL |-> <<"nar/", "f", NarHashOf(h).digest, ".nar.xz">>,
     Compression |-> "xz",
     FileHash |-> [algo |-> "sha256", digest |-> "f"],
     FileSize |-> fs,
     NarHash |-> NarHashOf(h),
     NarSize |-> ns,
     References |-> {3},
     Sig |-> "sig-upstream"]

\* what makeUpstreamRequest and the two parsers can come back with
UpstreamReplies(h) ==
    {[kind |-> "err", status |-> 0, ni |-> NoNI]}
    \cup {[kind |-> "status", status |-> s, ni |-> NoNI] : s \in {401, 403, 404, 500}}
    \cup {[kind |-> "badbody", status |-> 200, ni |-> NoNI]}
    \cup {[kind |-> "ok", status |-> 200, ni |-> UpstreamNarInfo(h, fs, ns)] :
            fs \in FileSizes, ns \in NarSizes}

\* the local store: names catalog.set / catalog.update may list
StorePool == {[hash |-> 3, rest |-> NameA0], [hash |-> 1, rest |-> NameA1]}

isNotFound(code) == code = 404 \/ code = 401 \/ code = 403

\* narinfo's NarHash.NixString(), as tokens
NixString(h) == <<h.algo, ":", h.digest>>

\* subst.go:475
NewUrl(ni) == <<"nar/">> \o TrimPrefix(NixString(ni.NarHash), <<"sha256", ":">>) \o <<".nar">>

\* path.Base of a relative url whose only directory token is "nar/"
PathBase(u) == IF u # <<>> /\ Head(u) = "nar/" THEN Tail(u) ELSE u

\* the rewrite without the FileSize assignment (a faulty variant)
RewriteKeepFileSize(ni) ==
    [ni EXCEPT !.URL = NewUrl(ni), !.Compression = "none", !.FileHash = ni.NarHash]

\* subst.go:494-499
RewriteNarInfo(ni) ==
    [ni EXCEPT !.URL = NewUrl(ni), !.Compression = "none",
               !.FileHash = ni.NarHash, !.FileSize = ni.NarSize]

\* subst.go:435-439: "" when the size is eligible
SizeCode(ni) ==
    IF \/ ToInt(ni.FileSize) < MinFileSize
       \/ ToInt(ni.FileSize) > MaxFileSize
       \/ ToInt(ni.NarSize) > MaxNarSize
    THEN IF ToInt(ni.FileSize) > MaxFileSize \/ ToInt(ni.NarSize) > MaxNarSize
         THEN "toobig" ELSE "toosmall"
    ELSE ""

\* the test without the identical-hash case (a faulty variant)
BaseCodeNoIdentical(fb, hash) == IF fb.err # "" THEN "nobase" ELSE ""

\* subst.go:454-461: "" when the base is accepted
BaseCode(fb, hash) ==
    IF fb.err # "" THEN "nobase"
    ELSE IF fb.storePath.hash = hash THEN "identical"
    ELSE ""

\* groupcache lru.Cache: Add and Get, most recently used first
LruRemove(c, k) == SelectSeq(c, LAMBDA e : e.key # k)
LruHas(c, k) == \E i \in 1..Len(c) : c[i].key = k
LruVal(c, k) == (CHOOSE i \in 1..Len(c) : c[i].key = k)

\* an Add that stores nothing (a faulty variant)
LruAddDropped(c, k, v) == c

\* lru.Cache.Add: to the front, the oldest entry dropped beyond the capacity
LruAdd(c, k, v) ==
    LET c1 == <<[key |-> k, val |-> v]>> \o LruRemove(c, k)
    IN IF Len(c1) > RecentsCap THEN SubSeq(c1, 1, RecentsCap) ELSE c1

LruGet(c, k) ==
    IF LruHas(c, k) THEN <<c[LruVal(c, k)]>> \o LruRemove(c, k) ELSE c

NoMemo == [id |-> 0,
           request |-> [ReqNarPath |-> <<>>, BaseStorePath |-> NoSP,
                        AcceptAlgos |-> <<>>, NarFilter |-> "", ReqNarSize |-> 0,
                        ReqName |-> <<>>]]

\* a lookup that makes up a memo on a miss (a faulty variant)
getRecentAlways(c, k) ==
    IF LruHas(c, k) THEN c[LruVal(c, k)].val
    ELSE [NoMemo EXCEPT !.id = 99]

\* subst.getRecent's result: the memo, or NoMemo for nil
getRecent(c, k) == IF LruHas(c, k) THEN c[LruVal(c, k)].val ELSE NoMemo

\* http.ResponseWriter: the first Write commits status 200; a WriteHeader
\* after the header is committed changes nothing
NoRW == [wroteHeader |-> FALSE, status |-> 0, chunks |-> 0, body |-> NoNI]

RWWriteHeader(w, code) ==
    IF w.wroteHeader THEN w ELSE [w EXCEPT !.wroteHeader = TRUE, !.status = code]

RWWriteBody(w, ni) == [RWWriteHeader(w, 200) EXCEPT !.body = ni]
RWWriteChunk(w) == [RWWriteHeader(w, 200) EXCEPT !.chunks = w.chunks + 1]

\* analytics.go:229-247: after the handler returned an error with `status`,
\* and the server's implicit 200 when the handler wrote nothing at all
fw(w, status) ==
    LET w1 == IF status > 0 THEN RWWriteHeader(w, status) ELSE w
    IN RWWriteHeader(w1, 200)

\* subst.writeAnalytics
writeAnalytics(log, rec) == IF analyticsOpen THEN Append(log, rec) ELSE log

AnR(id, req, ni, base, failed) ==
    [t |-> "R", id |-> id, req |-> req, nar |-> ni.NarSize, file |-> ni.FileSize,
     base |-> base, failed |-> failed]
AnD(id) ==
    [t |-> "D", id |-> id, req |-> NoNI.StorePath, nar |-> 0, file |-> 0, base |-> NoSP,
     failed |-> ""]

\* the differ's reply as getDiff reads it: the transport error, the status,
\* whether Content-Type is multipart/form-data with a boundary, the first
\* part (its form name, whether its JSON decodes, the algorithm it names)
\* and the form name of the second part; a name of "" is a part that
\* NextPart could not read
DReply(err, status, boundary, n1, json, algo, n2) ==
    [err |-> err, status |-> status, boundary |-> boundary,
     first |-> [name |-> n1, json |-> json, algo |-> algo], second |-> n2]
NoDReply == DReply(FALSE, 0, FALSE, "", FALSE, "", "")

NoRq == [kind |-> "", method |-> "", hash |-> 0, dir |-> "", id |-> 0, ni |-> NoNI,
         base |-> NoBase("unset"), key |-> <<>>, memo |-> NoMemo, src |-> "",
         reply |-> NoDReply, fin |-> ""]

NoObs == [memoAtWrite |-> "na", memoFull |-> FALSE, put |-> FALSE, catalog |-> FALSE,
          lookup |-> "na",
          upstream |-> 0, nsemHeld |-> FALSE, cacheGets |-> 0, cacheReply |-> "na",
          differPosts |-> 0, ret |-> -1,
          dumper |-> FALSE, decoder |-> FALSE]

-----------------------------------------------------------------------------
(* Substituter: the handlers.  A connection accepts a request, runs one    *)
(* handler to its return (pc = "done"), and is then reused.                *)

Parked == "parked"

SubstInit ==
    /\ bt = {}
    /\ recents = <<>>
    /\ nisem = 0
    /\ nsem = 0
    /\ nreq = 0
    /\ cacheOn \in BOOLEAN
    /\ pc = [p \in Conns |-> "idle"]
    /\ rq = [p \in Conns |-> NoRq]
    /\ rw = [p \in Conns |-> NoRW]
    /\ an = [p \in Conns |-> <<>>]
    /\ obs = [p \in Conns |-> NoObs]

SubstParked ==
    /\ bt = {} /\ recents = <<>> /\ nisem = 0 /\ nsem = 0 /\ nreq = 0
    /\ cacheOn = FALSE /\ pc = Parked /\ rq = Parked /\ rw = Parked
    /\ an = Parked /\ obs = Parked

\* semaphore.Weighted (golang.org/x/sync v0.3.0): Acquire takes n units when
\* size - cur >= n, and otherwise waits until the units are free or ctx is
\* done; the order in which waiters are woken is not modelled
SemFree(cur, size, n) == size - cur >= n

\* semaphore.NewWeighted(40), semaphore.NewWeighted(20)
NiSemCap == 40
NSemCap  == 20

\* s.nisem.Acquire(r.Context(), 1) can take its unit (subst.go:389)
getNarInfoAdmit(held) == SemFree(held, NiSemCap, 1)

\* getNar without the semaphore (a faulty variant)
getNarAdmitAlways(held) == TRUE
\* s.nsem.Acquire(r.Context(), 1) can take its unit (subst.go:155)
getNarAdmit(held) == SemFree(held, NSemCap, 1)

\* the handler returns `status` through fw; the deferred Release has run
Return(p, status, log) ==
    /\ pc' = [pc EXCEPT ![p] = "done"]
    /\ rw' = [rw EXCEPT ![p] = fw(rw[p], status)]
    /\ an' = [an EXCEPT ![p] = log]

\* catalog.set(names) for one name of the store (clone, addBatch, publish)
CatalogSet ==
    /\ \E n \in StorePool : bt' = addBatch(bt, n, 1)
    /\ bt' # bt
    /\ UNCHANGED <<recents, nisem, nsem, nreq, cacheOn, pc, rq, rw, an, obs>>

\* subst.getNarInfo up to the semaphore (subst.go:373-392)
NarInfoStart(p) ==
    /\ pc[p] = "idle" /\ nreq < MaxReqs
    /\ nreq' = nreq + 1
    /\ \E method \in {"GET", "HEAD", "POST"}, hash \in ReqHashes \cup {0},
          tp \in {"narinfo", "ls"} :
        /\ rq' = [rq EXCEPT ![p] = [NoRq EXCEPT !.kind = "ni", !.method = method,
                                               !.hash = hash, !.id = nreq + 1]]
        /\ IF method # "GET" /\ method # "HEAD"
           THEN Return(p, 405, an[p])
           ELSE IF hash = 0 \/ tp = "ls"           \* no regexp match, or a listing
           THEN Return(p, 404, an[p])
           ELSE /\ pc' = [pc EXCEPT ![p] = "ni_wait"]
                /\ UNCHANGED <<rw, an>>
    /\ UNCHANGED <<bt, recents, nisem, nsem, cacheOn, obs>>

\* s.nisem.Acquire(ctx, 1) succeeds
NarInfoAcquire(p) ==
    /\ pc[p] = "ni_wait" /\ getNarInfoAdmit(nisem)
    /\ nisem' = nisem + 1
    /\ pc' = [pc EXCEPT ![p] = "ni_up"]
    /\ UNCHANGED <<bt, recents, nsem, nreq, cacheOn, rq, rw, an, obs>>

\* s.nisem.Acquire(ctx, 1) fails: the request context was cancelled
NarInfoCanceled(p) ==
    /\ pc[p] = "ni_wait"
    /\ Return(p, 500, an[p])
    /\ UNCHANGED <<bt, recents, nisem, nsem, nreq, cacheOn, rq, obs>>

\* a handler that stores the memo before it looks for a base (a faulty
\* variant)
putReachedBeforeBase(up, method, sz, bc) ==
    /\ up.kind = "ok" /\ method # "HEAD" /\ up.status = 200
    /\ sz = ""
\* the handler gets to s.putRecent: none of the error returns before it was
\* taken (subst.go:407-472)
putReached(up, method, sz, bc) ==
    /\ up.kind = "ok" /\ method # "HEAD" /\ up.status = 200
    /\ sz = "" /\ bc = ""

\* subst.getNarInfoCommon from the upstream request to putRecent
\* (subst.go:404-492), with the upstream's answer `up`
NarInfoUpstream(p) ==
    /\ pc[p] = "ni_up"
    /\ \E up \in UpstreamReplies(rq[p].hash) :
        LET hash == rq[p].hash
            id   == rq[p].id
            ni   == up.ni
            req  == ni.StorePath
            sz   == SizeCode(ni)
            fb   == findBase(bt, ni.StorePath.name, SysOfReq(hash))
            bc   == BaseCode(fb, hash)
            key  == PathBase(NewUrl(ni))
            memo == [id |-> id,
                     request |-> [ReqNarPath |-> ni.URL,
                                  BaseStorePath |-> fb.storePath,
                                  AcceptAlgos |-> <<"zstd-3", "xdelta-1">>,
                                  NarFilter |-> fb.narFilter,
                                  ReqNarSize |-> ni.NarSize,
                                  ReqName |-> ni.StorePath.name]]
            fail(status, log, seen, asked) ==
                /\ Return(p, status, log)
                /\ nisem' = nisem - 1
                /\ obs' = [obs EXCEPT ![p].upstream = seen, ![p].catalog = asked]
                /\ rq' = [rq EXCEPT ![p].ni = ni,
                                    ![p].base = IF asked THEN fb ELSE rq[p].base]
                /\ recents' = IF putReached(up, rq[p].method, sz, bc)
                              THEN LruAdd(recents, key, memo) ELSE recents
        IN IF up.kind = "err" THEN fail(500, an[p], 0, FALSE)
           ELSE IF rq[p].method = "HEAD" THEN fail(up.status, an[p], up.status, FALSE)
           ELSE IF isNotFound(up.status)
           THEN fail(up.status,
                     writeAnalytics(an[p], AnR(id, [hash |-> hash, name |-> <<>>],
                                               NoNI, NoSP, "notfound")),
                     up.status, FALSE)
           ELSE IF up.status # 200 THEN fail(up.status, an[p], up.status, FALSE)
           ELSE IF up.kind = "badbody" THEN fail(500, an[p], up.status, FALSE)
           ELSE IF sz # ""
           THEN fail(404, writeAnalytics(an[p], AnR(id, req, ni, NoSP, sz)),
                     up.status, FALSE)
           ELSE IF bc # ""
           THEN fail(404, writeAnalytics(an[p], AnR(id, req, ni, NoSP, bc)),
                     up.status, TRUE)
           ELSE /\ recents' = LruAdd(recents, key, memo)
                /\ rq' = [rq EXCEPT ![p].ni = ni, ![p].base = fb, ![p].key = key,
                                    ![p].memo = memo]
                /\ obs' = [obs EXCEPT ![p].upstream = up.status, ![p].catalog = TRUE,
                                      ![p].put = TRUE]
                /\ pc' = [pc EXCEPT ![p] = "ni_put"]
                /\ UNCHANGED <<nisem, rw, an>>
    /\ UNCHANGED <<bt, nsem, nreq, cacheOn>>

\* subst.getNarInfoCommon from the rewrite to its return (subst.go:494-517)
NarInfoRespond(p) ==
    /\ pc[p] = "ni_put"
    /\ LET ni2 == RewriteNarInfo(rq[p].ni)
       IN /\ pc' = [pc EXCEPT ![p] = "done"]
          /\ rw' = [rw EXCEPT ![p] = fw(RWWriteBody(rw[p], ni2), 0)]
          /\ an' = [an EXCEPT ![p] =
                      writeAnalytics(an[p], AnR(rq[p].id, rq[p].ni.StorePath, rq[p].ni,
                                                rq[p].memo.request.BaseStorePath, ""))]
          /\ obs' = [obs EXCEPT
                       ![p].memoAtWrite =
                           IF LruHas(recents, PathBase(ni2.URL)) THEN "present" ELSE "absent",
                       ![p].memoFull = (Len(recents) = RecentsCap)]
    /\ nisem' = nisem - 1
    /\ UNCHANGED <<bt, recents, nsem, nreq, cacheOn, rq>>

\* archive basenames a client may ask for
NarKeys == {PathBase(NewUrl(UpstreamNarInfo(h, 3, 4))) : h \in ReqHashes} \cup {<<"zz", ".nar">>}

\* subst.getNar up to the semaphore (subst.go:140-158)
NarStart(p) ==
    /\ pc[p] = "idle" /\ nreq < MaxReqs
    /\ nreq' = nreq + 1
    /\ \E method \in {"GET", "POST"}, dir \in {"/nar/", "/nar/x/"}, key \in NarKeys :
        LET memo == getRecent(recents, key)
            rq1  == [NoRq EXCEPT !.kind = "nar", !.method = method, !.dir = dir,
                                 !.key = key, !.id = nreq + 1]
            seen == IF LruHas(recents, key) THEN "hit" ELSE "miss"
        IN IF method # "GET"
           THEN /\ Return(p, 405, an[p])
                /\ rq' = [rq EXCEPT ![p] = rq1]
                /\ UNCHANGED <<recents, obs>>
           ELSE IF dir # "/nar/" \/ ~HasSuffix(key, <<".nar">>)
           THEN /\ Return(p, 404, an[p])
                /\ rq' = [rq EXCEPT ![p] = rq1]
                /\ UNCHANGED <<recents, obs>>
           ELSE IF memo = NoMemo
           THEN /\ Return(p, 404, an[p])
                /\ rq' = [rq EXCEPT ![p] = rq1]
                /\ recents' = LruGet(recents, key)
                /\ obs' = [obs EXCEPT ![p].lookup = seen]
           ELSE /\ pc' = [pc EXCEPT ![p] = "nar_wait"]
                /\ rq' = [rq EXCEPT ![p] = [rq1 EXCEPT !.memo = memo]]
                /\ recents' = LruGet(recents, key)
                /\ obs' = [obs EXCEPT ![p].lookup = seen]
                /\ UNCHANGED <<rw, an>>
    /\ UNCHANGED <<bt, nisem, nsem, cacheOn>>

\* s.nsem.Acquire(ctx, 1) succeeds
NarAcquire(p) ==
    /\ pc[p] = "nar_wait" /\ getNarAdmit(nsem)
    /\ nsem' = nsem + 1
    /\ pc' = [pc EXCEPT ![p] = "nar_diff"]
    /\ obs' = [obs EXCEPT ![p].nsemHeld = TRUE]
    /\ UNCHANGED <<bt, recents, nisem, nreq, cacheOn, rq, rw, an>>

\* s.nsem.Acquire(ctx, 1) fails: the request context was cancelled
NarCanceled(p) ==
    /\ pc[p] = "nar_wait"
    /\ Return(p, 500, an[p])
    /\ UNCHANGED <<bt, recents, nisem, nsem, nreq, cacheOn, rq, obs>>

\* getAlgo: the algorithm and its default level, "" for an unknown name
getAlgo(name) ==
    IF name = "xdelta" THEN [name |-> "xdelta", level |-> 6]
    ELSE IF name = "zstd" THEN [name |-> "zstd", level |-> 9]
    ELSE [name |-> "", level |-> 0]

\* what the cache and the differ can answer in subst.getDiff
CacheReplies == {"err", "hit", "miss"}

DifferReplies ==
    { DReply(TRUE, 0, FALSE, "", FALSE, "", ""),
      DReply(FALSE, 500, TRUE, differHeaderName, TRUE, "zstd", differBodyName),
      DReply(FALSE, 404, FALSE, "", FALSE, "", ""),
      DReply(FALSE, 200, FALSE, differHeaderName, TRUE, "zstd", differBodyName),
      DReply(FALSE, 200, TRUE, "", FALSE, "", ""),
      DReply(FALSE, 200, TRUE, differBodyName, TRUE, "zstd", differBodyName),
      DReply(FALSE, 200, TRUE, differHeaderName, FALSE, "", differBodyName),
      DReply(FALSE, 200, TRUE, differHeaderName, TRUE, "bogus", differBodyName),
      DReply(FALSE, 200, TRUE, differHeaderName, TRUE, "zstd", ""),
      DReply(FALSE, 200, TRUE, differHeaderName, TRUE, "zstd", differTrailerName),
      DReply(FALSE, 200, TRUE, differHeaderName, TRUE, "xdelta", differBodyName),
      DReply(FALSE, 200, TRUE, differHeaderName, TRUE, "zstd", differBodyName) }

\* getDiff with the check of the second part's name left out (a faulty
\* variant)
getDiffErrAnyBody(d) ==
    IF d.err THEN "differ http error"
    ELSE IF d.status # 200 THEN "differ http status"
    ELSE IF ~d.boundary THEN "parse multipart"
    ELSE IF d.first.name = "" THEN "parse multipart header"
    ELSE IF d.first.name # differHeaderName THEN "parse multipart header wrong name"
    ELSE IF ~d.first.json THEN "parse multipart header json"
    ELSE IF getAlgo(d.first.algo).name = "" THEN "unknown algo"
    ELSE IF d.second = "" THEN "parse multipart body"
    ELSE ""

\* subst.go:215-258: the error getDiff returns for the differ's reply, ""
\* when it returns a diffSource
getDiffErr(d) ==
    IF d.err THEN "differ http error"
    ELSE IF d.status # 200 THEN "differ http status"
    ELSE IF ~d.boundary THEN "parse multipart"
    ELSE IF d.first.name = "" THEN "parse multipart header"
    ELSE IF d.first.name # differHeaderName THEN "parse multipart header wrong name"
    ELSE IF ~d.first.json THEN "parse multipart header json"
    ELSE IF getAlgo(d.first.algo).name = "" THEN "unknown algo"
    ELSE IF d.second = "" THEN "parse multipart body"
    ELSE IF d.second # differBodyName THEN "parse multipart body wrong name"
    ELSE ""

\* a cache lookup that takes every answered GET for a hit (a faulty variant)
cacheHitAnyStatus(on, c) == on /\ c # "err"
\* subst.go:167-194: the cache body is the delta when a read cache is
\* configured, the GET returned without error and its status is 200
cacheHit(on, c) == on /\ c = "hit"

\* subst.getDiff and the start of the archive dumper (subst.go:164-309)
NarGetDiff(p) ==
    /\ pc[p] = "nar_diff"
    /\ \E c \in CacheReplies, d \in DifferReplies, dump \in {"ok", "fail"} :
        LET useCache == cacheHit(cacheOn, c)
            gets  == IF cacheOn THEN 1 ELSE 0
            posts == IF useCache THEN 0 ELSE 1
            reply == IF useCache THEN NoDReply ELSE d
        IN /\ (~cacheOn => c = "err")              \* no cache: one way to skip it
           /\ (useCache => getDiffErr(d) = "")     \* the differ is not asked
           /\ IF ~useCache /\ getDiffErr(d) # ""
              THEN /\ dump = "ok"
                   /\ Return(p, 500, an[p])
                   /\ nsem' = nsem - 1
                   /\ obs' = [obs EXCEPT ![p].cacheGets = gets, ![p].differPosts = posts,
                                         ![p].cacheReply = IF cacheOn THEN c ELSE "na"]
                   /\ rq' = [rq EXCEPT ![p].reply = reply]
              ELSE IF dump = "fail"                \* StdoutPipe or Start failed
              THEN /\ Return(p, 500, an[p])
                   /\ nsem' = nsem - 1
                   /\ obs' = [obs EXCEPT ![p].cacheGets = gets, ![p].differPosts = posts,
                                         ![p].cacheReply = IF cacheOn THEN c ELSE "na"]
                   /\ rq' = [rq EXCEPT ![p].reply = reply]
              ELSE /\ pc' = [pc EXCEPT ![p] = "nar_stream"]
                   /\ rq' = [rq EXCEPT ![p].src = IF useCache THEN "cache" ELSE "differ",
                                       ![p].reply = reply]
                   /\ obs' = [obs EXCEPT ![p].cacheGets = gets, ![p].differPosts = posts,
                                         ![p].cacheReply = IF cacheOn THEN c ELSE "na",
                                         ![p].dumper = TRUE, ![p].decoder = TRUE]
                   /\ UNCHANGED <<nsem, rw, an>>
    /\ UNCHANGED <<bt, recents, nisem, nreq, cacheOn>>

\* the decoder (or the collapse filter's copy task) writes archive bytes to w
NarWrite(p) ==
    /\ pc[p] = "nar_stream" /\ rw[p].chunks < MaxChunks
    /\ rw' = [rw EXCEPT ![p] = RWWriteChunk(rw[p])]
    /\ UNCHANGED <<bt, recents, nisem, nsem, nreq, cacheOn, pc, rq, an, obs>>

\* finish that reports no error whatever the trailer is, and finish that
\* does not look for a part after the trailer (faulty variants)
FinishErrNever(t) == FALSE
FinishErrNoTrailing(t) == t \notin {"ok", "trailing"}
\* diffSource.finish for the differ's reply (subst.go:260-276): nil or an error
FinishErr(t) == t # "ok"

\* how the stages after the decoder can end
NarEnds(src, filter) ==
    {"expanderr", "dumperr"}
    \cup (IF filter = "expv2" THEN {"filtererr"} ELSE {})
    \cup (IF src = "cache" THEN {"closed"}
          ELSE {"missing", "wrongname", "badjson", "trailing", "notok", "ok"})

\* subst.getNarCommon from algo.Expand's return to its own (subst.go:326-370)
NarFinish(p) ==
    /\ pc[p] = "nar_stream"
    /\ \E e \in NarEnds(rq[p].src, rq[p].memo.request.NarFilter) :
        /\ rq' = [rq EXCEPT ![p].fin = e]
        /\ IF e \in {"expanderr", "dumperr", "filtererr"}
           THEN Return(p, 500, an[p]) /\ obs' = [obs EXCEPT ![p].ret = 500]
           ELSE IF rq[p].src = "differ" /\ FinishErr(e)
           THEN Return(p, 500, an[p]) /\ obs' = [obs EXCEPT ![p].ret = 500]
           ELSE /\ Return(p, 0, writeAnalytics(an[p], AnD(rq[p].memo.id)))
                /\ obs' = [obs EXCEPT ![p].ret = 0]
    /\ nsem' = nsem - 1
    /\ UNCHANGED <<bt, recents, nisem, nreq, cacheOn>>

\* the connection is reused for the next request
ConnReuse(p) ==
    /\ pc[p] = "done"
    /\ pc' = [pc EXCEPT ![p] = "idle"]
    /\ rq' = [rq EXCEPT ![p] = NoRq]
    /\ rw' = [rw EXCEPT ![p] = NoRW]
    /\ an' = [an EXCEPT ![p] = <<>>]
    /\ obs' = [obs EXCEPT ![p] = NoObs]
    /\ UNCHANGED <<bt, recents, nisem, nsem, nreq, cacheOn>>

SubstOnly == UNCHANGED <<catVars, differVars, narVars, snapVars, sysVars, ld, pr, waitVars, bf, ex, ck, idl, ls, sf, tee, sg>>

CatParked    == cbt = {} /\ cres = Parked /\ cord = <<>>
DifferParked ==
    dpc = Parked /\ dreq = Parked /\ dparts = <<>> /\ dobs = Parked /\ dsem = Parked
NarParked    == npc = Parked /\ nin = <<>> /\ nexp = <<>> /\ nout = <<>> /\ nerr = ""
SnapParked   ==
    theap = Parked /\ tnext = 0 /\ tpub = 0 /\ tupd = Parked /\ trd = Parked
SysParked    ==
    sycache = {} /\ syflight = Parked /\ sypc = Parked /\ syruns = Parked
LoadParked   == ld = Parked
ProcParked   == pr = Parked
WaitParked   == wsem = Parked /\ wt = Parked
BufParked    == bf = Parked
ExpandParked == ex = Parked
KeyParked    == ck = Parked
IdleParked   == idl = Parked
StoreParked  == ls = Parked
StrParked    == sf = Parked
TeeParked    == tee = Parked
StageParked  == sg = Parked

Init == SubstInit /\ CatParked /\ DifferParked /\ NarParked /\ SnapParked /\ SysParked /\ LoadParked /\ ProcParked /\ WaitParked
    /\ BufParked /\ ExpandParked /\ KeyParked /\ IdleParked /\ StoreParked
    /\ StrParked /\ TeeParked /\ StageParked
Next ==
    \/ CatalogSet /\ SubstOnly
    \/ \E p \in Conns : NarInfoStart(p) /\ SubstOnly
    \/ \E p \in Conns : NarInfoAcquire(p) /\ SubstOnly
    \/ \E p \in Conns : NarInfoCanceled(p) /\ SubstOnly
    \/ \E p \in Conns : NarInfoUpstream(p) /\ SubstOnly
    \/ \E p \in Conns : NarInfoRespond(p) /\ SubstOnly
    \/ \E p \in Conns : NarStart(p) /\ SubstOnly
    \/ \E p \in Conns : NarAcquire(p) /\ SubstOnly
    \/ \E p \in Conns : NarCanceled(p) /\ SubstOnly
    \/ \E p \in Conns : NarGetDiff(p) /\ SubstOnly
    \/ \E p \in Conns : NarWrite(p) /\ SubstOnly
    \/ \E p \in Conns : NarFinish(p) /\ SubstOnly
    \/ \E p \in Conns : ConnReuse(p) /\ SubstOnly
Spec == Init /\ [][Next]_vars

-----------------------------------------------------------------------------
(* Claims about the substituter, checked under Spec. *)

Served(p, kind) == pc[p] = "done" /\ rq[p].kind = kind

\* C1: for a GET metadata request whose upstream record m passed the size
\* check and got a base other than the requested package, the record written
\* to the client has narHash and narSize of m, fileHash = m.narHash,
\* fileSize = m.narSize, compression "none", url "nar/<narHash without its
\* sha256: prefix>.nar", and m's references, signatures and store path.
C1_MetadataRewrite ==
    \A p \in Conns :
        (Served(p, "ni") /\ obs[p].put) =>
            LET m == rq[p].ni
                e == rw[p].body
            IN /\ rw[p].status = 200
               /\ e.NarHash = m.NarHash
               /\ e.NarSize = m.NarSize
               /\ e.FileHash = m.NarHash
               /\ e.FileSize = m.NarSize
               /\ e.Compression = "none"
               /\ e.URL = <<"nar/">>
                          \o (IF m.NarHash.algo = "sha256" THEN <<m.NarHash.digest>>
                              ELSE <<m.NarHash.algo, ":", m.NarHash.digest>>)
                          \o <<".nar">>
               /\ e.References = m.References
               /\ e.Sig = m.Sig
               /\ e.StorePath = m.StorePath

C1_Witness ==
    \E p \in Conns :
        /\ Served(p, "ni") /\ obs[p].put
        /\ rw[p].body.Compression = "none"
        /\ rq[p].ni.FileSize # rq[p].ni.NarSize

Rewritten200(p) == rw[p].status = 200 /\ rw[p].body # NoNI

\* C40: a metadata request that does not end with a rewritten 200 response
\* (HEAD, upstream transport error or non-200 status, parse error,
\* ineligible size, no base, identical base, and the returns before the
\* upstream request) leaves the recent memo unchanged: the step in which
\* its handler returns adds, replaces and removes nothing, and none of its
\* earlier steps stored a memo.
C40_FailedLookupKeepsMemo ==
    [][\A p \in Conns :
          (pc[p] # "done" /\ pc'[p] = "done" /\ rq'[p].kind = "ni"
             /\ ~(rw'[p].status = 200 /\ rw'[p].body # NoNI)) =>
                (recents' = recents /\ ~obs'[p].put)]_vars

\* a lookup that found no base, or only the requested package itself, has
\* returned while the memo held an entry of an earlier request
C40_Witness ==
    \E p \in Conns :
        /\ Served(p, "ni") /\ ~Rewritten200(p) /\ ~obs[p].put
        /\ obs[p].catalog /\ rw[p].status = 404
        /\ recents # <<>>

\* C5: when the differ's trailer says ok = false the client's response has
\* status 500, also when archive bytes were already written.
C5_TrailerNotOkIs500 ==
    \A p \in Conns :
        (Served(p, "nar") /\ rq[p].fin = "notok") => rw[p].status = 500

\* C7: when the upstream answers a GET metadata lookup with 401, 403 or 404
\* the handler writes one record with failed = "notfound" and the client
\* gets status 404.
C7_NotFoundIs404 ==
    \A p \in Conns :
        (Served(p, "ni") /\ rq[p].method = "GET" /\ obs[p].upstream \in {401, 403, 404}) =>
            /\ Len(an[p]) = 1 /\ an[p][1].t = "R" /\ an[p][1].failed = "notfound"
            /\ rw[p].status = 404

\* C8: when findBase returned no base the handler answers 404 with one record
\* failed = "nobase"; when the base has the requested hash it answers 404
\* with failed = "identical"; in both cases the handler stores no memo, writes
\* no metadata and sends nothing to the differ.
C8_NoBaseOrIdentical ==
    \A p \in Conns :
        (Served(p, "ni") /\ obs[p].catalog) =>
            LET none == rq[p].base.err # ""
                same == rq[p].base.err = "" /\ rq[p].base.storePath.hash = rq[p].hash
            IN (none \/ same) =>
                /\ rw[p].status = 404
                /\ Len(an[p]) = 1 /\ an[p][1].t = "R"
                /\ an[p][1].failed = (IF none THEN "nobase" ELSE "identical")
                /\ ~obs[p].put
                /\ rw[p].body = NoNI
                /\ obs[p].differPosts = 0 /\ obs[p].cacheGets = 0

C8_Witness ==
    /\ \E p \in Conns : Served(p, "ni") /\ obs[p].catalog /\ rq[p].base.err # ""
    /\ \E p \in Conns : /\ Served(p, "ni") /\ obs[p].catalog /\ rq[p].base.err = ""
                        /\ rq[p].base.storePath.hash = rq[p].hash

\* C9: when the parsed metadata has fileSize < MinFileSize, fileSize >
\* MaxFileSize or narSize > MaxNarSize the handler answers 404 and writes one
\* record, failed = "toobig" if fileSize > MaxFileSize or narSize >
\* MaxNarSize and "toosmall" otherwise, and the catalog is not consulted.
C9_SizeRejected ==
    \A p \in Conns :
        (Served(p, "ni") /\ rq[p].method = "GET" /\ rq[p].ni # NoNI) =>
            LET m   == rq[p].ni
                big == m.FileSize > MaxFileSize \/ m.NarSize > MaxNarSize
            IN (m.FileSize < MinFileSize \/ big) =>
                /\ rw[p].status = 404
                /\ Len(an[p]) = 1 /\ an[p][1].t = "R"
                /\ an[p][1].failed = (IF big THEN "toobig" ELSE "toosmall")
                /\ ~obs[p].catalog

\* C10: a GET for /nar/<basename>.nar whose basename has no memo is answered
\* 404 without an archive slot, a cache or differ request, or the dumper.
C10_NoMemoIs404 ==
    \A p \in Conns :
        (Served(p, "nar") /\ obs[p].lookup = "miss") =>
            /\ rw[p].status = 404
            /\ ~obs[p].nsemHeld
            /\ obs[p].cacheGets = 0 /\ obs[p].differPosts = 0
            /\ ~obs[p].dumper /\ ~obs[p].decoder
            /\ rw[p].chunks = 0

C10_Witness ==
    \E p \in Conns : Served(p, "nar") /\ obs[p].lookup = "miss" /\ rq[p].method = "GET"

\* the differ was asked and its reply is one getDiff refuses before the body
BadDifferReply(p) ==
    LET d == rq[p].reply
    IN /\ obs[p].differPosts = 1 /\ ~d.err
       /\ \/ d.status # 200
          \/ ~d.boundary
          \/ d.first.name # "header"
          \/ ~d.first.json
          \/ d.first.algo \notin {"zstd", "xdelta"}
          \/ d.second # "body"

\* C11: when the differ's reply has a status other than 200, is not
\* multipart/form-data with a boundary, has a first part that is not a
\* "header" part naming a known algorithm, or a second part that is not the
\* "body" part, the archive handler answers 500, writes no archive bytes and
\* starts neither the archive dumper nor the decoder.
C11_BadDifferReplyIs500 ==
    \A p \in Conns :
        (rq[p].kind = "nar" /\ BadDifferReply(p)) =>
            /\ pc[p] = "done"
            /\ rw[p].status = 500
            /\ rw[p].chunks = 0
            /\ ~obs[p].dumper /\ ~obs[p].decoder

C11_Witness ==
    \E p \in Conns : /\ Served(p, "nar") /\ BadDifferReply(p)
                     /\ rq[p].reply.status = 200 /\ rq[p].reply.boundary
                     /\ rq[p].reply.first.algo = "zstd"
                     /\ rq[p].reply.second = "trailer"

\* the handler of p returned after a reconstruction that ended without error
Reconstructed(p) ==
    /\ pc[p] = "done" /\ rq[p].kind = "nar"
    /\ \/ rq[p].src = "differ" /\ rq[p].fin = "ok"
       \/ rq[p].src = "cache" /\ rq[p].fin = "closed"

\* what C22 says of archive requests: a reconstruction that completes
\* successfully writes exactly one D record with the id stored in the memo
\* entry it used, a failed one writes no record
DiffRecords(p) ==
    /\ Reconstructed(p) =>
          /\ Len(an[p]) = 1 /\ an[p][1].t = "D"
          /\ rq[p].memo # NoMemo /\ an[p][1].id = rq[p].memo.id
    /\ (rq[p].kind = "nar" /\ ~Reconstructed(p)) => an[p] = <<>>

\* C22: every metadata response the substituter serves writes exactly one R
\* record, and every reconstruction that completes successfully writes
\* exactly one D record whose id is the id of the R record written when the
\* memo entry it used was created; a failed reconstruction writes no D
\* record.  A metadata response served: the handler answered 200.
C22_EveryResponseOneR ==
    \A p \in Conns :
        /\ (pc[p] = "done" /\ rq[p].kind = "ni" /\ rw[p].status = 200) =>
              Len(an[p]) = 1 /\ an[p][1].t = "R"
        /\ DiffRecords(p)

\* C22 as amended: every response that carries the rewritten metadata (the
\* answer to a GET) writes exactly one R record, with the id stored in the
\* memo entry; the answer to a HEAD request writes none.  The part on D
\* records is unchanged.
C22_AnalyticsComplete ==
    \A p \in Conns :
        /\ (pc[p] = "done" /\ rq[p].kind = "ni" /\ rq[p].method = "HEAD") =>
              an[p] = <<>>
        /\ DiffRecords(p)
        /\ (pc[p] = "done" /\ rq[p].kind = "ni" /\ rw[p].body # NoNI) =>
              /\ Len(an[p]) = 1 /\ an[p][1].t = "R" /\ an[p][1].failed = ""
              /\ an[p][1].id = rq[p].memo.id

C22_Witness ==
    /\ \E p \in Conns : Reconstructed(p) /\ rq[p].src = "differ" /\ an[p] # <<>>
    /\ \E p \in Conns : pc[p] = "done" /\ rq[p].kind = "ni" /\ rw[p].body # NoNI

\* an archive request whose decoder has returned and whose handler has ended
Finished(p) == pc[p] = "done" /\ rq[p].kind = "nar" /\ rq[p].fin # ""

WroteD(p) == \E k \in 1..Len(an[p]) : an[p][k].t = "D"

\* C34 as stated: the trailer is read after the decoder has finished, and
\* the handler reports success (writes the D record) only if the trailer
\* part exists, is named "trailer", decodes, has ok = true and is followed by
\* no further part; in every other case it returns status 500.
C34_SuccessNeedsTrailer ==
    \A p \in Conns :
        /\ rq[p].fin # "" => (obs[p].decoder /\ pc[p] = "done")
        /\ Finished(p) =>
              IF rq[p].fin = "ok"
              THEN WroteD(p) /\ obs[p].ret = 0
              ELSE ~WroteD(p) /\ obs[p].ret = 500

\* C34 as amended: the same for a delta that came from the differ; a delta
\* that came from the cache has no trailer, and the handler reports success
\* once the decoder, the dumper and the filter ended without error and the
\* cache body was closed.
C34_SuccessNeedsTrailerOrCache ==
    \A p \in Conns :
        /\ rq[p].fin # "" => (obs[p].decoder /\ pc[p] = "done")
        /\ Finished(p) =>
              IF \/ rq[p].src = "differ" /\ rq[p].fin = "ok"
                 \/ rq[p].src = "cache" /\ rq[p].fin = "closed"
              THEN WroteD(p) /\ obs[p].ret = 0
              ELSE ~WroteD(p) /\ obs[p].ret = 500

C34_Witness ==
    \E p \in Conns :
        /\ Finished(p) /\ rq[p].src = "differ" /\ rq[p].fin = "trailing"
        /\ rw[p].chunks > 0 /\ obs[p].ret = 500 /\ ~WroteD(p)

\* C31: with a read cache configured, a transport error or a non-200 status
\* from the cache does not fail the archive request: the handler posts the
\* memoized request to the differ and goes on with the differ's reply; on a
\* 200 hit the cache body is the delta and the differ is not contacted.
C31_CacheAdvisory ==
    \A p \in Conns :
        /\ obs[p].cacheReply \in {"err", "miss"} =>
              /\ cacheOn /\ obs[p].cacheGets = 1 /\ obs[p].differPosts = 1
              /\ rq[p].reply \in DifferReplies
              /\ (getDiffErr(rq[p].reply) = "" /\ obs[p].dumper) => rq[p].src = "differ"
        /\ obs[p].cacheReply = "hit" =>
              /\ cacheOn /\ obs[p].cacheGets = 1 /\ obs[p].differPosts = 0
              /\ rq[p].reply = NoDReply
              /\ obs[p].dumper => rq[p].src = "cache"

C31_Witness ==
    \E p \in Conns :
        /\ obs[p].cacheReply = "miss" /\ obs[p].differPosts = 1
        /\ Reconstructed(p) /\ rq[p].src = "differ"

-----------------------------------------------------------------------------
(* The catalog on its own: names are published with catalog.set and the   *)
(* metadata handler asks findBase for a base and accepts or refuses it.   *)

NameA12   == <<97, Dash, 49, 50>>                 \* "a-12"
NameABMan == <<97, Dash, 98>> \o ManSuffix        \* "a-b-man"
NameACMan == <<97, Dash, 99>> \o ManSuffix        \* "a-c-man"
NameA1b   == <<97, 49, 98>>                       \* "a1b"
NameA1bc  == <<97, 49, 98, 99>>                   \* "a1bc"
NameA1Gz  == NameA1 \o GzExt                      \* "a-1.gz"
NameAb    == <<97, 98>>                           \* "ab"

CatRests  == {NameA0, NameA1, NameA12, NameABMan, NameA1bc, NameA1Gz}
CatReqs   == {NameA1, NameACMan, NameA1b, SourceName, NameAb}
CatHashes == {1, 2}
CatSys    == {sysUnknown, 1}

NoRes == [rest |-> <<>>, hash |-> 0, sys |-> sysUnknown, base |-> NoBase("unset"),
          code |-> "none", fresh |-> FALSE]

CatInit == cbt = {} /\ cres = NoRes /\ cord = <<>>

\* catalog.set: clone the tree, addBatch, publish.  cres.fresh records that
\* the tree has not been republished since the last findBase call.
CatSet ==
    /\ Cardinality(cbt) < MaxCat
    /\ \E rest \in CatRests, h \in CatHashes, sys \in CatSys :
          cbt' = addBatch(cbt, [hash |-> h, rest |-> rest], sys)
    /\ cres' = IF cbt' = cbt THEN cres ELSE [cres EXCEPT !.fresh = FALSE]
    /\ cord' = IF cbt' = cbt THEN cord
               ELSE Append(cord, CHOOSE i \in cbt' : i \notin cbt)

\* the catalog part of getNarInfoCommon: findBase on the published tree and
\* the nobase / identical test on its result
CatFind ==
    /\ \E rest \in CatReqs, h \in CatHashes, sys \in CatSys :
          LET fb == findBase(cbt, rest, sys)
          IN cres' = [rest |-> rest, hash |-> h, sys |-> sys, base |-> fb,
                      code |-> BaseCode(fb, h), fresh |-> TRUE]
    /\ UNCHANGED <<cbt, cord>>

CatOnly == UNCHANGED <<substVars, differVars, narVars, snapVars, sysVars, ld, pr, waitVars, bf, ex, ck, idl, ls, sf, tee, sg>>

InitCatalog ==
    SubstParked /\ CatInit /\ DifferParked /\ NarParked /\ SnapParked /\ SysParked /\ LoadParked /\ ProcParked /\ WaitParked
    /\ BufParked /\ ExpandParked /\ KeyParked /\ IdleParked /\ StoreParked
    /\ StrParked /\ TeeParked /\ StageParked
NextCatalog ==
    \/ CatSet /\ CatOnly
    \/ CatFind /\ CatOnly
SpecCatalog == InitCatalog /\ [][NextCatalog]_vars

DashCount(s) == Cardinality({k \in 1..Len(s) : s[k] = 45})
CommonPrefix(a, b) ==
    CHOOSE n \in 0..Min2(Len(a), Len(b)) :
        /\ SubSeq(a, 1, n) = SubSeq(b, 1, n)
        /\ (n < Min2(Len(a), Len(b)) => a[n + 1] # b[n + 1])
Eligible(i, r) ==
    /\ i.sys = r.sys
    /\ DashCount(i.rest) = DashCount(r.rest)
    /\ i.hash # r.hash

\* C3: a base the handler accepts (findBase succeeded, no 404) is a catalog
\* entry with the request's system tag, the request's number of dashes and a
\* hash other than the requested one, and no other catalog entry with those
\* three properties shares a strictly longer prefix with the requested rest.
C3_AcceptedBaseIsBest ==
    (cres.fresh /\ cres.code = "") =>
        LET b == cres.base.item
        IN /\ b \in cbt
           /\ cres.base.storePath = [hash |-> b.hash, rest |-> b.rest]
           /\ Eligible(b, cres)
           /\ \A o \in cbt \ {b} :
                 Eligible(o, cres) =>
                     CommonPrefix(cres.rest, o.rest) <= CommonPrefix(cres.rest, b.rest)

C3_Witness ==
    /\ cres.fresh /\ cres.code = ""
    /\ \E o \in cbt \ {cres.base.item} :
          /\ Eligible(o, cres)
          /\ CommonPrefix(cres.rest, o.rest) < CommonPrefix(cres.rest, cres.base.item.rest)

\* the entries the range scan visits that pass the system-tag and the
\* dash-count filter
Candidates(r) ==
    {i \in cbt : /\ InRange(i, StartOf(r.rest))
                 /\ i.sys = r.sys
                 /\ DashCount(i.rest) = DashCount(r.rest)}

\* the candidates no other candidate beats on the common prefix
Longest(r) ==
    {i \in Candidates(r) :
        \A o \in Candidates(r) :
            CommonPrefix(r.rest, o.rest) <= CommonPrefix(r.rest, i.rest)}

InsertedAt(i) == CHOOSE k \in 1..Len(cord) : cord[k] = i

\* C26 as stated: findBase returns a candidate with the longest common
\* prefix, and among the candidates that tie on that length the one
\* inserted into the catalog last, which is also the one the ascending scan
\* visits last.
C26_PrefersLaterInserted ==
    (cres.fresh /\ cres.base.err = "") =>
        LET b == cres.base.item
        IN /\ b \in Longest(cres)
           /\ \A o \in Longest(cres) \ {b} :
                 InsertedAt(o) < InsertedAt(b) /\ itemLess(o, b)

\* C26 as amended: findBase returns a candidate with the longest common
\* prefix, and among the candidates that tie on that length the one the
\* ascending scan visits last, which is the greatest by (rest, hash),
\* whenever it was inserted.
C26_PrefersLastVisited ==
    (cres.fresh /\ cres.base.err = "") =>
        LET b == cres.base.item
        IN /\ b \in Longest(cres)
           /\ \A o \in Longest(cres) \ {b} : itemLess(o, b)

C26_Witness ==
    /\ cres.fresh /\ cres.base.err = ""
    /\ cres.base.item \in Longest(cres)
    /\ \E o \in Longest(cres) \ {cres.base.item} :
          itemLess(o, cres.base.item) /\ InsertedAt(cres.base.item) < InsertedAt(o)

-----------------------------------------------------------------------------
(* Catalog snapshots: one writer (catalog.set, or catalog.update in the    *)
(* goroutine of catalog.start) and one reader inside findBase.  Trees live *)
(* on a heap, catalog.bt holds the id of the published one, and the range  *)
(* scan visits the items of the tree it loaded one at a time.              *)

MaxTrees == 4   \* trees allocated in one behaviour

NameA3 == <<97, Dash, 51>>   \* "a-3"

\* the names the store directory can list, with the system of each
SnapNames ==
    { [hash |-> 3, rest |-> NameA0], [hash |-> 1, rest |-> NameA1],
      [hash |-> 2, rest |-> NameA3] }

NoUpd == [pc |-> "idle", kind |-> "", nt |-> 0, listed |-> {}, before |-> {},
          pubId |-> 0]
NoRd  == [pc |-> "idle", bt |-> 0, req |-> <<>>, sys |-> sysUnknown, seen |-> <<>>,
          acc |-> [bestmatch |-> 0, best |-> NoItem], cands |-> {}]

SnapInit ==
    /\ theap = [t \in 1..MaxTrees |-> {}]
    /\ tnext = 1
    /\ tpub = 1
    /\ tupd = NoUpd
    /\ trd = NoRd

\* a Clone that hands back the tree it was given (a faulty variant)
CloneShared(t, fresh) == t
\* bt.Clone(): the id of the tree the writer goes on to change; fresh is
\* the next unused id
Clone(t, fresh) == fresh

\* catalog.set / catalog.update up to nt := bt.Clone(); update can fail in
\* os.Open before it loads the tree
SnapBegin ==
    /\ tupd.pc = "idle" /\ tnext < MaxTrees
    /\ \E kind \in {"set", "update"}, open \in {"ok", "err"} :
          /\ (kind = "set" => open = "ok")
          /\ IF open = "err"
             THEN /\ tupd' = [NoUpd EXCEPT !.pc = "aborted", !.kind = kind,
                                           !.before = theap[tpub], !.pubId = tpub]
                  /\ UNCHANGED <<theap, tnext>>
             ELSE LET nt == Clone(tpub, tnext + 1)
                  IN /\ theap' = [theap EXCEPT ![nt] = theap[tpub]]
                     /\ tnext' = tnext + 1
                     /\ tupd' = [NoUpd EXCEPT !.pc = "batches", !.kind = kind, !.nt = nt,
                                              !.before = theap[tpub], !.pubId = tpub]
    /\ UNCHANGED <<tpub, trd>>

\* c.addBatch(nt, names) for the next name of the listing
SnapAddBatch ==
    /\ tupd.pc = "batches"
    /\ \E n \in SnapNames \ tupd.listed :
          /\ theap' = [theap EXCEPT ![tupd.nt] = addBatch(@, n, 1)]
          /\ tupd' = [tupd EXCEPT !.listed = @ \cup {n}]
    /\ UNCHANGED <<tnext, tpub, trd>>

\* f.Readdirnames fails: update returns without c.bt.Store
SnapAbort ==
    /\ tupd.pc = "batches" /\ tupd.kind = "update"
    /\ tupd' = [tupd EXCEPT !.pc = "aborted"]
    /\ UNCHANGED <<theap, tnext, tpub, trd>>

\* c.bt.Store(nt)
SnapStore ==
    /\ tupd.pc = "batches"
    /\ tpub' = tupd.nt
    /\ tupd' = [tupd EXCEPT !.pc = "stored"]
    /\ trd' = IF trd.pc = "scan"
              THEN [trd EXCEPT !.cands = @ \cup {theap[tupd.nt]}] ELSE trd
    /\ UNCHANGED <<theap, tnext>>

\* set or update has returned; the ticker starts the next update
SnapWriterReuse ==
    /\ tupd.pc \in {"aborted", "stored"}
    /\ tupd' = NoUpd
    /\ UNCHANGED <<theap, tnext, tpub, trd>>

\* findBase up to bt := c.bt.Load()
SnapLoad ==
    /\ trd.pc = "idle"
    /\ \E req \in {NameA1, NameA3}, sys \in CatSys :
          trd' = [NoRd EXCEPT !.pc = "scan", !.bt = tpub, !.req = req, !.sys = sys,
                              !.cands = {theap[tpub]}]
    /\ UNCHANGED <<theap, tnext, tpub, tupd>>

\* the items AscendRange has still to visit in the tree it iterates
SnapAhead ==
    {i \in theap[trd.bt] :
        /\ InRange(i, StartOf(trd.req))
        /\ (trd.seen = <<>> \/ itemLess(trd.seen[Len(trd.seen)], i))}

\* AscendRange visits the next item and calls the callback
SnapScanStep ==
    /\ trd.pc = "scan" /\ SnapAhead # {}
    /\ LET i == CHOOSE x \in SnapAhead : \A y \in SnapAhead \ {x} : itemLess(x, y)
       IN trd' = [trd EXCEPT !.seen = Append(@, i),
                             !.acc = ScanStep(@, i, trd.req, trd.sys,
                                              Len(findDashes(trd.req)))]
    /\ UNCHANGED <<theap, tnext, tpub, tupd>>

\* AscendRange returns
SnapScanEnd ==
    /\ trd.pc = "scan" /\ SnapAhead = {}
    /\ trd' = [trd EXCEPT !.pc = "done"]
    /\ UNCHANGED <<theap, tnext, tpub, tupd>>

\* the next findBase call
SnapReaderReuse ==
    /\ trd.pc = "done"
    /\ trd' = NoRd
    /\ UNCHANGED <<theap, tnext, tpub, tupd>>

SnapOnly == UNCHANGED <<substVars, catVars, differVars, narVars, sysVars, ld, pr, waitVars, bf, ex, ck, idl, ls, sf, tee, sg>>

InitSnapshot ==
    SubstParked /\ CatParked /\ DifferParked /\ NarParked /\ SnapInit /\ SysParked /\ LoadParked /\ ProcParked /\ WaitParked
    /\ BufParked /\ ExpandParked /\ KeyParked /\ IdleParked /\ StoreParked
    /\ StrParked /\ TeeParked /\ StageParked
NextSnapshot ==
    \/ SnapBegin /\ SnapOnly
    \/ SnapAddBatch /\ SnapOnly
    \/ SnapAbort /\ SnapOnly
    \/ SnapStore /\ SnapOnly
    \/ SnapWriterReuse /\ SnapOnly
    \/ SnapLoad /\ SnapOnly
    \/ SnapScanStep /\ SnapOnly
    \/ SnapScanEnd /\ SnapOnly
    \/ SnapReaderReuse /\ SnapOnly
SpecSnapshot == InitSnapshot /\ [][NextSnapshot]_vars

SeenSet == {trd.seen[k] : k \in 1..Len(trd.seen)}

\* C16: a range scan of findBase that runs beside a set or an update sees
\* exactly the items of a snapshot that was published while it ran (the one
\* before the update or the one after it) and its result is findBase of
\* that snapshot; an update that aborts leaves the published snapshot as it
\* was.
C16_SnapshotAtomic ==
    /\ trd.pc = "done" =>
          \E c \in trd.cands :
              /\ SeenSet = {i \in c : InRange(i, StartOf(trd.req))}
              /\ trd.acc.best = findBase(c, trd.req, trd.sys).item
    /\ tupd.pc = "aborted" => (tpub = tupd.pubId /\ theap[tpub] = tupd.before)

C16_Witness ==
    /\ trd.pc = "done" /\ Cardinality(trd.cands) = 2
    /\ trd.seen # <<>> /\ SeenSet # theap[tpub]
    /\ tupd.pc = "aborted" /\ tupd.nt # 0 /\ theap[tupd.nt] # theap[tpub]

-----------------------------------------------------------------------------
(* The system-tag cache: sysChecker.getCached (main.go:230-248) called by  *)
(* concurrent goroutines.  The cache is below its capacity, so nothing is  *)
(* evicted.                                                                *)

NumCallers == 2   \* goroutines calling getCached
SysHashes  == {1, 2}
Callers    == 1..NumCallers

NoSyPc == [pc |-> "idle", hash |-> 0, lead |-> 0, hit |-> FALSE]

SysInit ==
    /\ sycache = {}
    /\ syflight = [h \in SysHashes |-> 0]
    /\ sypc = [p \in Callers |-> NoSyPc]
    /\ syruns = [h \in SysHashes |-> 0]

\* getCached is called with storeHash = h
SysCall(p) ==
    /\ sypc[p].pc = "idle"
    /\ \E h \in SysHashes : sypc' = [sypc EXCEPT ![p] = [NoSyPc EXCEPT !.pc = "get", !.hash = h]]
    /\ UNCHANGED <<sycache, syflight, syruns>>

\* cacheLock.Lock(); v, ok := s.cache.Get(storeHash); cacheLock.Unlock()
SysGet(p) ==
    /\ sypc[p].pc = "get"
    /\ sypc' = [sypc EXCEPT ![p].pc = IF sypc[p].hash \in sycache THEN "done" ELSE "do",
                            ![p].hit = sypc[p].hash \in sycache]
    /\ UNCHANGED <<sycache, syflight, syruns>>

\* singleflight.Group.Do: join the call in flight for the key, or register
\* a new call and run fn
SysDo(p) ==
    /\ sypc[p].pc = "do"
    /\ LET h == sypc[p].hash
       IN IF syflight[h] # 0
          THEN /\ sypc' = [sypc EXCEPT ![p].pc = "wait", ![p].lead = syflight[h]]
               /\ UNCHANGED syflight
          ELSE /\ sypc' = [sypc EXCEPT ![p].pc = "run", ![p].lead = p]
               /\ syflight' = [syflight EXCEPT ![h] = p]
    /\ UNCHANGED <<sycache, syruns>>

\* v := f(): the resolver runs
SysResolve(p) ==
    /\ sypc[p].pc = "run"
    /\ syruns' = [syruns EXCEPT ![sypc[p].hash] = @ + 1]
    /\ sypc' = [sypc EXCEPT ![p].pc = "add"]
    /\ UNCHANGED <<sycache, syflight>>

\* cacheLock.Lock(); s.cache.Add(storeHash, v); cacheLock.Unlock()
SysAdd(p) ==
    /\ sypc[p].pc = "add"
    /\ sycache' = sycache \cup {sypc[p].hash}
    /\ sypc' = [sypc EXCEPT ![p].pc = "end"]
    /\ UNCHANGED <<syflight, syruns>>

\* doCall's epilogue: wg.Done() and delete(g.m, key); the callers that
\* joined the call return its value
SysDoEnd(p) ==
    /\ sypc[p].pc = "end"
    /\ syflight' = [syflight EXCEPT ![sypc[p].hash] = 0]
    /\ sypc' = [q \in Callers |->
                  IF q = p \/ (sypc[q].pc = "wait" /\ sypc[q].lead = p)
                  THEN [sypc[q] EXCEPT !.pc = "done"] ELSE sypc[q]]
    /\ UNCHANGED <<sycache, syruns>>

\* getCached has returned; the goroutine makes its next call
SysReturn(p) ==
    /\ sypc[p].pc = "done"
    /\ sypc' = [sypc EXCEPT ![p] = NoSyPc]
    /\ UNCHANGED <<sycache, syflight, syruns>>

SysOnly == UNCHANGED <<substVars, catVars, differVars, narVars, snapVars, ld, pr, waitVars, bf, ex, ck, idl, ls, sf, tee, sg>>

InitSys ==
    SubstParked /\ CatParked /\ DifferParked /\ NarParked /\ SnapParked /\ SysInit /\ LoadParked /\ ProcParked /\ WaitParked
    /\ BufParked /\ ExpandParked /\ KeyParked /\ IdleParked /\ StoreParked
    /\ StrParked /\ TeeParked /\ StageParked
NextSys ==
    \/ \E p \in Callers : SysCall(p) /\ SysOnly
    \/ \E p \in Callers : SysGet(p) /\ SysOnly
    \/ \E p \in Callers : SysDo(p) /\ SysOnly
    \/ \E p \in Callers : SysResolve(p) /\ SysOnly
    \/ \E p \in Callers : SysAdd(p) /\ SysOnly
    \/ \E p \in Callers : SysDoEnd(p) /\ SysOnly
    \/ \E p \in Callers : SysReturn(p) /\ SysOnly
SpecSys == InitSys /\ [][NextSys]_vars

\* C17: with no eviction, the resolver runs at most once for a hash, in
\* every interleaving of the getCached calls for that hash.
C17_ResolveOnce == \A h \in SysHashes : syruns[h] <= 1

-----------------------------------------------------------------------------
(* The substituter under load: many requests at the two semaphores of      *)
(* getNarInfo and getNar.  Handlers are counted by their position: waiting *)
(* in Acquire, or past it and before the deferred Release.                 *)

MaxNiReqs  == 41   \* metadata requests in the server at a time
MaxNarReqs == 21   \* archive requests in the server at a time

LoadInit ==
    /\ nisem = 0 /\ nsem = 0
    /\ ld = [niWait |-> 0, niRun |-> 0, nWait |-> 0, nRun |-> 0]
    /\ bt = {} /\ recents = <<>> /\ nreq = 0 /\ cacheOn = FALSE
    /\ pc = Parked /\ rq = Parked /\ rw = Parked /\ an = Parked /\ obs = Parked

LoadRest == UNCHANGED <<bt, recents, nreq, cacheOn, pc, rq, rw, an, obs>>

\* a GET for a .narinfo reaches s.nisem.Acquire (subst.go:373-389)
LoadNarInfoArrive ==
    /\ ld.niWait + ld.niRun < MaxNiReqs
    /\ ld' = [ld EXCEPT !.niWait = @ + 1]
    /\ UNCHANGED <<nisem, nsem>> /\ LoadRest

\* s.nisem.Acquire(ctx, 1) returns nil
LoadNarInfoAcquire ==
    /\ ld.niWait > 0 /\ getNarInfoAdmit(nisem)
    /\ nisem' = nisem + 1
    /\ ld' = [ld EXCEPT !.niWait = @ - 1, !.niRun = @ + 1]
    /\ UNCHANGED nsem /\ LoadRest

\* s.nisem.Acquire(ctx, 1) returns the context's error: 500, no unit held
LoadNarInfoCanceled ==
    /\ ld.niWait > 0
    /\ ld' = [ld EXCEPT !.niWait = @ - 1]
    /\ UNCHANGED <<nisem, nsem>> /\ LoadRest

\* getNarInfoCommon returns; defer s.nisem.Release(1)
LoadNarInfoReturn ==
    /\ ld.niRun > 0
    /\ nisem' = nisem - 1
    /\ ld' = [ld EXCEPT !.niRun = @ - 1]
    /\ UNCHANGED nsem /\ LoadRest

\* a GET for a memoised .nar reaches s.nsem.Acquire (subst.go:140-155)
LoadNarArrive ==
    /\ ld.nWait + ld.nRun < MaxNarReqs
    /\ ld' = [ld EXCEPT !.nWait = @ + 1]
    /\ UNCHANGED <<nisem, nsem>> /\ LoadRest

\* s.nsem.Acquire(ctx, 1) returns nil
LoadNarAcquire ==
    /\ ld.nWait > 0 /\ getNarAdmit(nsem)
    /\ nsem' = nsem + 1
    /\ ld' = [ld EXCEPT !.nWait = @ - 1, !.nRun = @ + 1]
    /\ UNCHANGED nisem /\ LoadRest

\* s.nsem.Acquire(ctx, 1) returns the context's error: 500, no unit held
LoadNarCanceled ==
    /\ ld.nWait > 0
    /\ ld' = [ld EXCEPT !.nWait = @ - 1]
    /\ UNCHANGED <<nisem, nsem>> /\ LoadRest

\* getNarCommon returns; defer s.nsem.Release(1)
LoadNarReturn ==
    /\ ld.nRun > 0
    /\ nsem' = nsem - 1
    /\ ld' = [ld EXCEPT !.nRun = @ - 1]
    /\ UNCHANGED nisem /\ LoadRest

LoadOnly ==
    UNCHANGED <<catVars, differVars, narVars, snapVars, sysVars, pr, waitVars, bf, ex, ck, idl, ls, sf, tee, sg>>

InitLoad ==
    LoadInit /\ CatParked /\ DifferParked /\ NarParked /\ SnapParked /\ SysParked
    /\ ProcParked /\ WaitParked /\ BufParked /\ ExpandParked
    /\ KeyParked /\ IdleParked /\ StoreParked /\ StrParked /\ TeeParked
    /\ StageParked
NextLoad ==
    \/ LoadNarInfoArrive /\ LoadOnly
    \/ LoadNarInfoAcquire /\ LoadOnly
    \/ LoadNarInfoCanceled /\ LoadOnly
    \/ LoadNarInfoReturn /\ LoadOnly
    \/ LoadNarArrive /\ LoadOnly
    \/ LoadNarAcquire /\ LoadOnly
    \/ LoadNarCanceled /\ LoadOnly
    \/ LoadNarReturn /\ LoadOnly
SpecLoad == InitLoad /\ [][NextLoad]_vars

\* C18: at most 40 metadata lookups and at most 20 archive reconstructions
\* served through the HTTP handlers are in progress at any moment; a request
\* that arrives beyond that waits for a slot.
C18_SemaphoreCaps ==
    /\ ld.niRun <= 40 /\ ld.nRun <= 20
    /\ (ld.niWait > 0 /\ ld.niRun < 40) => ENABLED LoadNarInfoAcquire
    /\ (ld.nWait > 0 /\ ld.nRun < 20) => ENABLED LoadNarAcquire

C18_Witness ==
    /\ ld.niRun = 40 /\ ld.niWait = 1
    /\ ld.nRun = 20 /\ ld.nWait = 1

-----------------------------------------------------------------------------
(* Subprocesses.  Each request of the substituter or of the differ starts  *)
(* helper processes; a process started by exec.CommandContext is killed by *)
(* the runtime once the context is done, one started by exec.Command ends  *)
(* only on its own (end of input, output consumed or closed).              *)

NumProcReqs == 2

ProcReqs == 1..NumProcReqs

\* start sites reached from subst.getNarCommon: the archive dumper, Expand
\* of the algorithm, the expander and the collapser filters
SubstSites ==
    {"dump", "expand", "expandXz", "expandGzip", "collapseXz", "collapseGzip"}

\* start sites reached from the differ's handler: downloadNar's decompressor,
\* the expander filter, Create of the algorithm
DifferSites == {"decompress", "expandXz", "expandGzip", "create"}

Sites(kind) == IF kind = "subst" THEN SubstSites ELSE DifferSites

\* the sites that pass a context to exec.CommandContext: subst.go:298
\* (procCtx, a child of the request's context), the algorithms' Create and
\* Expand.  exec.Command: differ.go:672-676, narexpander.go:174,232,331,362
WithContext(site) == site \in {"dump", "expand", "create"}

NoProc == [kind |-> "", ctx |-> "", procs |-> {}]

ProcInit == pr = [r \in ProcReqs |-> NoProc]

\* a request arrives at one of the two servers
ProcBegin(r) ==
    /\ pr[r].kind = ""
    /\ \E k \in {"subst", "differ"} :
        pr' = [pr EXCEPT ![r] = [kind |-> k, ctx |-> "live", procs |-> {}]]

\* cmd.Start(): with a context that is done Start returns its error
ProcStart(r, site) ==
    /\ pr[r].kind # "" /\ pr[r].ctx = "live"
    /\ site \in Sites(pr[r].kind) \ pr[r].procs
    /\ pr' = [pr EXCEPT ![r].procs = @ \cup {site}]

\* the process ends on its own and cmd.Wait() reaps it
ProcExit(r, site) ==
    /\ site \in pr[r].procs
    /\ pr' = [pr EXCEPT ![r].procs = @ \ {site}]

\* the client disconnects: net/http cancels the request's context
ProcCancel(r) ==
    /\ pr[r].kind # "" /\ pr[r].ctx = "live"
    /\ pr' = [pr EXCEPT ![r].ctx = "done"]

\* os/exec kills a process started by CommandContext once ctx is done
ProcKill(r, site) ==
    /\ site \in pr[r].procs /\ pr[r].ctx = "done" /\ WithContext(site)
    /\ pr' = [pr EXCEPT ![r].procs = @ \ {site}]

\* the handler returns, all its processes reaped
ProcEnd(r) ==
    /\ pr[r].kind # "" /\ pr[r].procs = {}
    /\ pr' = [pr EXCEPT ![r] = NoProc]

AllSites == SubstSites \cup DifferSites

ProcOnly ==
    UNCHANGED <<substVars, catVars, differVars, narVars, snapVars, sysVars, ld, waitVars, bf, ex, ck, idl, ls, sf, tee, sg>>

InitProc ==
    /\ SubstParked /\ CatParked /\ DifferParked /\ NarParked /\ SnapParked
    /\ SysParked /\ LoadParked /\ ProcInit /\ WaitParked /\ BufParked
    /\ ExpandParked /\ KeyParked /\ IdleParked /\ StoreParked
    /\ StrParked /\ TeeParked /\ StageParked
NextProc ==
    \/ \E r \in ProcReqs : ProcBegin(r) /\ ProcOnly
    \/ \E r \in ProcReqs : \E site \in AllSites : ProcStart(r, site) /\ ProcOnly
    \/ \E r \in ProcReqs : \E site \in AllSites : ProcExit(r, site) /\ ProcOnly
    \/ \E r \in ProcReqs : ProcCancel(r) /\ ProcOnly
    \/ \E r \in ProcReqs : \E site \in AllSites : ProcKill(r, site) /\ ProcOnly
    \/ \E r \in ProcReqs : ProcEnd(r) /\ ProcOnly

\* the kill is the runtime's own step and always happens; whether a process
\* ends on its own depends on its input and on who reads its output
SpecProc ==
    /\ InitProc /\ [][NextProc]_vars
    /\ \A r \in ProcReqs : \A site \in AllSites :
        WF_vars(ProcKill(r, site) /\ ProcOnly)

\* C19: every subprocess started for a request is started with the request's
\* context, so once the client has disconnected every subprocess of the
\* request is eventually terminated.
C19_SubprocessesEnd ==
    \A r \in ProcReqs :
        (pr[r].ctx = "done") ~> (pr[r].procs = {})

-----------------------------------------------------------------------------
(* Waiting at the semaphores.  A task serving a request calls Acquire on   *)
(* one of the six semaphores with the context the call site passes; when   *)
(* the units are not free it waits until they are or that context is done. *)

NumWaiters == 2
WaitCap    == 1   \* units of each semaphore

Waiters == 1..NumWaiters

\* s.nisem, s.nsem (subst.go:71-72); d.diskSem, d.dlSem, d.deltaSem
\* (differ.go:447-449); n.sem of the expander and collapser (narexpander.go:69)
WaitSems == {"nisem", "nsem", "diskSem", "dlSem", "deltaSem", "sem"}

\* the context handed to Acquire: r.Context() at subst.go:155,389 and
\* differ.go:524,536,546,573; context.Background() at
\* narexpander.go:140,196,320,351,381
AcquireCtx(sem) == IF sem = "sem" THEN "background" ELSE "request"

NoWaiter == [sem |-> "", ctx |-> "", at |-> "idle"]

WaitInit ==
    /\ wsem = [m \in WaitSems |-> [cur |-> 0, waiters |-> <<>>]]
    /\ wt = [t \in Waiters |-> NoWaiter]

\* the sequence q without the task t
Without(q, t) == SelectSeq(q, LAMBDA u : u # t)

\* a task of a request reaches Acquire(ctx, 1): it takes the unit at once
\* when one is free and nobody waits, and joins the waiters otherwise
WaitAcquire(t) ==
    /\ wt[t].at = "idle"
    /\ \E m \in WaitSems :
        IF SemFree(wsem[m].cur, WaitCap, 1) /\ wsem[m].waiters = <<>>
        THEN /\ wsem' = [wsem EXCEPT ![m].cur = @ + 1]
             /\ wt' = [wt EXCEPT ![t] = [sem |-> m, ctx |-> "live", at |-> "held"]]
        ELSE /\ wsem' = [wsem EXCEPT ![m].waiters = Append(@, t)]
             /\ wt' = [wt EXCEPT ![t] = [sem |-> m, ctx |-> "live", at |-> "wait"]]

\* the request's context is cancelled
WaitCancel(t) ==
    /\ wt[t].at # "idle" /\ wt[t].ctx = "live"
    /\ wt' = [wt EXCEPT ![t].ctx = "done"]
    /\ UNCHANGED wsem

\* the context given to Acquire is done: Acquire leaves the waiters, returns
\* the context's error and the caller returns without the unit
WaitGiveUp(t) ==
    /\ wt[t].at = "wait" /\ wt[t].ctx = "done"
    /\ AcquireCtx(wt[t].sem) = "request"
    /\ wsem' = [wsem EXCEPT ![wt[t].sem].waiters = Without(@, t)]
    /\ wt' = [wt EXCEPT ![t] = NoWaiter]

\* the holder finishes its work: Release(1), and notifyWaiters hands the
\* unit to the first waiter, whose Acquire returns nil
WaitRelease(t) ==
    /\ wt[t].at = "held"
    /\ LET m == wt[t].sem
           q == wsem[m].waiters
       IN IF q = <<>>
          THEN /\ wsem' = [wsem EXCEPT ![m].cur = @ - 1]
               /\ wt' = [wt EXCEPT ![t] = NoWaiter]
          ELSE /\ wsem' = [wsem EXCEPT ![m].waiters = Tail(q)]
               /\ wt' = [wt EXCEPT ![t] = NoWaiter, ![Head(q)].at = "held"]

WaitOnly ==
    UNCHANGED <<substVars, catVars, differVars, narVars, snapVars, sysVars,
                ld, pr, bf, ex, ck, idl, ls, sf, tee, sg>>

InitWait ==
    /\ SubstParked /\ CatParked /\ DifferParked /\ NarParked /\ SnapParked
    /\ SysParked /\ LoadParked /\ ProcParked /\ WaitInit /\ BufParked
    /\ ExpandParked /\ KeyParked /\ IdleParked /\ StoreParked
    /\ StrParked /\ TeeParked /\ StageParked
NextWait ==
    \/ \E t \in Waiters : WaitAcquire(t) /\ WaitOnly
    \/ \E t \in Waiters : WaitCancel(t) /\ WaitOnly
    \/ \E t \in Waiters : WaitGiveUp(t) /\ WaitOnly
    \/ \E t \in Waiters : WaitRelease(t) /\ WaitOnly

\* Acquire's select on ctx.Done() is taken once the context is done; when a
\* holder releases depends on its work (for the expander: on the reader of
\* its output)
SpecWait ==
    /\ InitWait /\ [][NextWait]_vars
    /\ \A t \in Waiters : WF_vars(WaitGiveUp(t) /\ WaitOnly)

\* C20: every semaphore wait respects cancellation: once the request's
\* context is cancelled, a task waiting at the metadata, archive, disk-budget,
\* download, delta-worker or expander byte semaphore stops waiting and
\* returns without holding the semaphore.
C20_WaitsRespectCancel ==
    \A t \in Waiters :
        (wt[t].at = "wait" /\ wt[t].ctx = "done") ~> (wt[t].at # "wait")

-----------------------------------------------------------------------------
(* The expander's pipeline.  readAndExpand reads one entry after another   *)
(* from the input archive: it takes min(BufferBytes, size) units of n.sem, *)
(* reads the whole body into memory and sends the entry on the channel     *)
(* n.ents; writeEnts receives an entry, writes it out and releases its     *)
(* units.  An entry of size 0 stands for a directory, a symbolic link or a  *)
(* metadata entry: it takes and gives back no units.                       *)

BufferBytes   == 2   \* opts.BufferBytes
BufferEntries == 2   \* opts.BufferEntries, the capacity of n.ents
MaxFiles      == 3   \* entries of the input archive

\* body sizes of the files of the input archive
BodySizes == {0, 1, 2, BufferBytes + 1}

BufArchives == UNION {[1..n -> BodySizes] : n \in 0..MaxFiles}

NoEnt == [size |-> 0, sem |-> 0, err |-> FALSE]

BufInit ==
    \E a \in BufArchives :
        bf = [input |-> a, rpc |-> "next", rent |-> NoEnt, ents |-> <<>>,
              wpc |-> "idle", went |-> NoEnt, cur |-> 0,
              total |-> Len(a), wrote |-> 0, bad |-> FALSE,
              semWait |-> FALSE, chanWait |-> FALSE]

\* the body's size without the clamp (a faulty variant)
semSizeUnclamped(h) == h
\* the units passThrough, expandXz and expandGz take for a body of h bytes
semSize(h) == Min2(BufferBytes, h)

\* nr.Next() returns a regular file: semSize := min(BufferBytes, h.Size);
\* n.sem.Acquire(context.Background(), semSize)
BufAcquire ==
    /\ bf.rpc = "next" /\ bf.input # <<>>
    /\ LET h == Head(bf.input) IN
        /\ SemFree(bf.cur, BufferBytes, semSize(h))
        /\ bf' = [bf EXCEPT !.input = Tail(@), !.rpc = "acquired",
                            !.cur = @ + semSize(h),
                            !.rent = [size |-> h, sem |-> semSize(h),
                                      err |-> FALSE]]

\* readFullFromNar: buf := make([]byte, h.Size); io.ReadFull, or its error,
\* which readAndExpand's deferred function sends as an entry
BufReadFull ==
    /\ bf.rpc = "acquired"
    /\ \/ bf' = [bf EXCEPT !.rpc = "read"]
       \/ bf' = [bf EXCEPT !.rpc = "read", !.rent = [NoEnt EXCEPT !.err = TRUE],
                           !.bad = TRUE]

\* n.ents <- &narEntry{...}: blocks while the channel is full; after an
\* error entry the channel is closed
BufSend ==
    /\ bf.rpc = "read" /\ Len(bf.ents) < BufferEntries
    /\ bf' = [bf EXCEPT !.ents = Append(@, bf.rent), !.rent = NoEnt,
                        !.rpc = IF bf.rent.err THEN "done" ELSE "next"]

\* nr.Next() returns io.EOF: close(n.ents)
BufEof ==
    /\ bf.rpc = "next" /\ bf.input = <<>>
    /\ bf' = [bf EXCEPT !.rpc = "done"]

\* the reader is waiting in n.sem.Acquire
ReaderAtSem ==
    /\ bf.rpc = "next" /\ bf.input # <<>>
    /\ ~SemFree(bf.cur, BufferBytes, semSize(Head(bf.input)))

\* the reader is waiting in the send on the full channel
ReaderAtChan == bf.rpc = "read" /\ Len(bf.ents) = BufferEntries

\* writeEnts: for ent := range n.ents; an error entry ends the writer
BufRecv ==
    /\ bf.wpc = "idle" /\ bf.ents # <<>>
    /\ bf' = [bf EXCEPT !.ents = Tail(@), !.went = Head(bf.ents),
                        !.wpc = IF Head(bf.ents).err THEN "done" ELSE "writing",
                        !.semWait = @ \/ ReaderAtSem,
                        !.chanWait = @ \/ ReaderAtChan]

\* WriteHeader, ioCopy and ent.release(): n.sem.Release(semSize); a write
\* error ends the writer before the release
BufWrite ==
    /\ bf.wpc = "writing"
    /\ \/ bf' = [bf EXCEPT !.wpc = "idle", !.went = NoEnt,
                           !.cur = @ - bf.went.sem, !.wrote = @ + 1,
                           !.semWait = @ \/ ReaderAtSem,
                           !.chanWait = @ \/ ReaderAtChan]
       \/ bf' = [bf EXCEPT !.wpc = "done", !.bad = TRUE]

\* the channel is closed and empty: nw.Close()
BufClose ==
    /\ bf.wpc = "idle" /\ bf.ents = <<>> /\ bf.rpc = "done"
    /\ bf' = [bf EXCEPT !.wpc = "done"]

RECURSIVE SumSems(_)
SumSems(q) == IF q = <<>> THEN 0 ELSE Head(q).sem + SumSems(Tail(q))

RECURSIVE SumSizes(_)
SumSizes(q) == IF q = <<>> THEN 0 ELSE Head(q).size + SumSizes(Tail(q))

\* bytes of entry bodies in memory: read and not yet written and released
BufHeld ==
    (IF bf.rpc = "read" THEN bf.rent.size ELSE 0)
    + SumSizes(bf.ents)
    + (IF bf.wpc = "writing" THEN bf.went.size ELSE 0)

BufOnly ==
    UNCHANGED <<substVars, catVars, differVars, narVars, snapVars, sysVars,
                ld, pr, waitVars, ex, ck, idl, ls, sf, tee, sg>>

InitBuf ==
    /\ SubstParked /\ CatParked /\ DifferParked /\ NarParked /\ SnapParked
    /\ SysParked /\ LoadParked /\ ProcParked /\ WaitParked /\ BufInit
    /\ ExpandParked /\ KeyParked /\ IdleParked /\ StoreParked
    /\ StrParked /\ TeeParked /\ StageParked
NextBuf ==
    \/ BufAcquire /\ BufOnly
    \/ BufReadFull /\ BufOnly
    \/ BufSend /\ BufOnly
    \/ BufEof /\ BufOnly
    \/ BufRecv /\ BufOnly
    \/ BufWrite /\ BufOnly
    \/ BufClose /\ BufOnly
SpecBuf == InitBuf /\ [][NextBuf]_vars

BufReader == BufAcquire \/ BufReadFull \/ BufSend \/ BufEof
BufWriter == BufRecv \/ BufWrite \/ BufClose

\* the reader and the writer are goroutines of their own: each one takes
\* its next step when it can
SpecBufLive ==
    SpecBuf /\ WF_vars(BufReader /\ BufOnly) /\ WF_vars(BufWriter /\ BufOnly)

\* C21: the total size of the entry bodies held in memory (read from the
\* input archive and not yet written out and released) never exceeds
\* BufferBytes, whatever the input archive is, a single file larger than
\* BufferBytes included.
C21_MemoryBound == BufHeld <= BufferBytes

\* both stages ended, every entry of the input was written and every unit
\* of n.sem is back
BufAllWritten ==
    /\ bf.rpc = "done" /\ bf.wpc = "done"
    /\ bf.input = <<>> /\ bf.ents = <<>>
    /\ bf.wrote = bf.total /\ bf.cur = 0

\* C38: for a well-formed input archive whose output is read to the end
\* (no read error, no write error) the reader and the writer never
\* deadlock on the entry channel and the byte semaphore: every entry is
\* eventually written, every amount acquired is released, and the output
\* stream ends.
C38_PipelineEnds == <>(bf.bad \/ BufAllWritten)

\* an entry's units are given back only after the entry was written: the
\* units in use are those of the entries read and not yet written
C38_UnitsOfUnwritten ==
    ~bf.bad =>
        bf.cur = (IF bf.rpc \in {"acquired", "read"} THEN bf.rent.sem ELSE 0)
                 + SumSems(bf.ents)
                 + (IF bf.wpc = "writing" THEN bf.went.sem ELSE 0)

\* an archive of MaxFiles entries went through, the reader having waited
\* for units of the semaphore
C38_Witness ==
    /\ BufAllWritten /\ ~bf.bad /\ bf.total = MaxFiles /\ bf.semWait

\* the same, the reader having waited for room in the channel
C38_WitnessChannel ==
    /\ BufAllWritten /\ ~bf.bad /\ bf.total = MaxFiles /\ bf.chanWait

-----------------------------------------------------------------------------
(* Decoding.  getNarCommon starts the archive dumper, wraps its output in  *)
(* the expander when the memoised request has narFilter expandV2, and      *)
(* calls Expand of the algorithm the delta names; Expand hands the base to *)
(* the decoder as file descriptor 3.                                       *)

NumExpands == 2

ExReqs == 1..NumExpands

NoEx == [algo |-> "", filter |-> "", pc |-> "idle", base |-> "none",
         feed |-> "none", copy |-> "none", proc |-> "none", result |-> ""]

ExInit == ex = [r \in ExReqs |-> NoEx]

\* getNarCommon is entered with the delta's algorithm (diff.algo) and the
\* memoised request
ExBegin(r) ==
    /\ ex[r].pc = "idle"
    /\ \E a \in {"zstd", "xdelta"}, f \in {"", "expv2"} :
        ex' = [ex EXCEPT ![r] = [NoEx EXCEPT !.algo = a, !.filter = f,
                                             !.pc = "dump"]]

\* writeNar.StdoutPipe() and writeNar.Start(): the pipe's read end is an
\* *os.File; an error of either ends the handler with 500
ExDump(r) ==
    /\ ex[r].pc = "dump"
    /\ \/ ex' = [ex EXCEPT ![r].pc = "filter", ![r].base = "file"]
       \/ ex' = [ex EXCEPT ![r].pc = "done", ![r].result = "err"]

\* the stream getNarFilter's expFilter returns for basePipe: ExpandNar
\* returns the read end of an io.Pipe
expFilter(filter, base) == IF filter = "expv2" THEN "reader" ELSE base

\* expFilter, colFilter := getNarFilter(...); basePipe = expFilter(basePipe)
ExFilter(r) ==
    /\ ex[r].pc = "filter"
    /\ ex' = [ex EXCEPT ![r].pc = "expand",
                        ![r].base = expFilter(ex[r].filter, ex[r].base)]

\* how Expand attaches args.Base to the decoder: "direct" (the file itself
\* in ExtraFiles), "pipe" (os.Pipe plus a copy goroutine), "panic" (the type
\* assertion args.Base.(*os.File) fails)
ExpandBase(algo, base) ==
    IF base = "file" THEN "direct"
    ELSE IF algo = "xdelta" THEN "pipe"
    ELSE "panic"

\* Expand up to cmd.Start(): StderrPipe, the base, Start (whose error is not
\* looked at)
ExExpand(r) ==
    /\ ex[r].pc = "expand"
    /\ LET how == ExpandBase(ex[r].algo, ex[r].base) IN
        \/ ex' = [ex EXCEPT ![r].pc = "done", ![r].result = "err"]   \* StderrPipe
        \/ /\ how = "panic"
           /\ ex' = [ex EXCEPT ![r].pc = "done", ![r].result = "panic"]
        \/ /\ how = "pipe"                                           \* os.Pipe fails
           /\ ex' = [ex EXCEPT ![r].pc = "done", ![r].result = "err"]
        \/ /\ how # "panic"
           /\ ex' = [ex EXCEPT ![r].pc = "run", ![r].feed = how,
                               ![r].proc = "running",
                               ![r].copy = IF how = "pipe" THEN "running"
                                           ELSE "ok"]

\* the copy goroutine ends: ioCopy(pw, args.Base), pw.Close()
ExCopyEnd(r) ==
    /\ ex[r].pc = "run" /\ ex[r].copy = "running"
    /\ \E c \in {"ok", "err"} : ex' = [ex EXCEPT ![r].copy = c]

\* the decoder exits
ExProcEnd(r) ==
    /\ ex[r].pc = "run" /\ ex[r].proc = "running"
    /\ \E c \in {"ok", "err"} : ex' = [ex EXCEPT ![r].proc = c]

\* baseCopyErr := <-baseCopyErrCh; cmd.Wait(); Expand returns
ExWait(r) ==
    /\ ex[r].pc = "run" /\ ex[r].copy # "running" /\ ex[r].proc # "running"
    /\ ex' = [ex EXCEPT ![r].pc = "done",
                        ![r].result = IF ex[r].proc = "ok" /\ ex[r].copy = "ok"
                                      THEN "ok" ELSE "err"]

\* the connection serves its next request
ExReuse(r) ==
    /\ ex[r].pc = "done"
    /\ ex' = [ex EXCEPT ![r] = NoEx]

ExOnly ==
    UNCHANGED <<substVars, catVars, differVars, narVars, snapVars, sysVars,
                ld, pr, waitVars, bf, ck, idl, ls, sf, tee, sg>>

InitExpand ==
    /\ SubstParked /\ CatParked /\ DifferParked /\ NarParked /\ SnapParked
    /\ SysParked /\ LoadParked /\ ProcParked /\ WaitParked /\ BufParked
    /\ ExInit /\ KeyParked /\ IdleParked /\ StoreParked /\ StrParked
    /\ TeeParked /\ StageParked
NextExpand ==
    \/ \E r \in ExReqs : ExBegin(r) /\ ExOnly
    \/ \E r \in ExReqs : ExDump(r) /\ ExOnly
    \/ \E r \in ExReqs : ExFilter(r) /\ ExOnly
    \/ \E r \in ExReqs : ExExpand(r) /\ ExOnly
    \/ \E r \in ExReqs : ExCopyEnd(r) /\ ExOnly
    \/ \E r \in ExReqs : ExProcEnd(r) /\ ExOnly
    \/ \E r \in ExReqs : ExWait(r) /\ ExOnly
    \/ \E r \in ExReqs : ExReuse(r) /\ ExOnly
SpecExpand == InitExpand /\ [][NextExpand]_vars

\* C23: for both algorithms Expand accepts a base stream that is not an
\* OS-level open file (the expander's output, when the memoised request has
\* narFilter expandV2) and feeds it to the decoder through a pipe and a copy
\* task; it does not fail or crash because of the base's stream type.
C23_ExpandAnyBase ==
    \A r \in ExReqs :
        (ex[r].base = "reader") =>
            /\ ex[r].result # "panic"
            /\ (ex[r].pc = "run" => ex[r].feed = "pipe")

-----------------------------------------------------------------------------
(* Idle exit.  Started by socket activation with SubstIdleTime > 0, serve  *)
(* starts exitOnIdle beside the HTTP server (subst.go:92-96).  Time is     *)
(* counted in periods of the ticker; every handler is wrapped by fw, which *)
(* calls alive() when the request arrives and again when the handler       *)
(* returns (analytics.go:220-221).                                         *)

SubstIdleTime == 2   \* cfg.SubstIdleTime in ticker periods (15 minutes, scaled)
MaxTime       == 12  \* ticker periods in one behaviour
MaxInFlight   == 2   \* requests served at the same time

\* lastReq is the zero value of atomic.Int64 until the first request: the
\* epoch, further back than any idle threshold
IdleInit ==
    idl = [now |-> 0, lastReq |-> 0 - SubstIdleTime - 1, inflight |-> 0,
           exited |-> FALSE]

\* fw: alive() on arrival, then the handler runs
IdleReqBegin ==
    /\ ~idl.exited
    /\ idl.inflight < MaxInFlight
    /\ idl' = [idl EXCEPT !.lastReq = idl.now, !.inflight = @ + 1]

\* fw: the handler returned, the deferred alive() runs
IdleReqEnd ==
    /\ ~idl.exited
    /\ idl.inflight > 0
    /\ idl' = [idl EXCEPT !.lastReq = idl.now, !.inflight = @ - 1]

\* exitOnIdle: one period of the ticker passes and the loop body runs
IdleTick ==
    /\ ~idl.exited
    /\ idl.now < MaxTime
    /\ idl' = [idl EXCEPT !.now = @ + 1,
                          !.exited = (idl.now + 1) - idl.lastReq > SubstIdleTime]

IdleOnly == UNCHANGED <<substVars, catVars, differVars, narVars, snapVars, sysVars, ld, pr, waitVars, bf, ex, ck, ls, sf, tee, sg>>

InitIdle ==
    SubstParked /\ CatParked /\ DifferParked /\ NarParked /\ SnapParked /\ SysParked /\ LoadParked /\ ProcParked /\ WaitParked
    /\ BufParked /\ ExpandParked /\ KeyParked /\ IdleInit /\ StoreParked
    /\ StrParked /\ TeeParked /\ StageParked
NextIdle ==
    \/ IdleReqBegin /\ IdleOnly
    \/ IdleReqEnd /\ IdleOnly
    \/ IdleTick /\ IdleOnly
SpecIdle == InitIdle /\ [][NextIdle]_vars

\* C27: the substituter exits only when it is idle: at a periodic check,
\* once more than SubstIdleTime has passed since the last request, and never
\* while a request is still being served.
C27_ExitsOnlyIdle ==
    idl.exited => (idl.now - idl.lastReq > SubstIdleTime /\ idl.inflight = 0)

\* the part on the time since the last request arrived or returned
C27_ExitsAfterThreshold ==
    idl.exited => idl.now - idl.lastReq > SubstIdleTime

-----------------------------------------------------------------------------
(* The local store, the catalog and the recent memo.  catalog.update lists *)
(* /nix/store and adds the names it finds to a clone of the tree; names    *)
(* that are gone stay (catalog.go:117, "TODO: remove names that we didn't  *)
(* find this time").  A metadata request stores a memo with the base that  *)
(* findBase returned (subst.go:454-492).  Packages come and go beside      *)
(* this (a build, nix-collect-garbage).                                    *)

\* packages that may be in /nix/store, and the packages clients ask for
LocalPkgs == {[hash |-> 3, rest |-> NameA0], [hash |-> 1, rest |-> NameA1],
              [hash |-> 2, rest |-> NameA2]}
AskedPkgs == {[hash |-> 1, rest |-> NameA1], [hash |-> 2, rest |-> NameA2]}

StoreInit == ls = [store |-> {}, bt |-> {}, recents |-> <<>>]

\* a package is added to /nix/store
StoreInstall ==
    \E n \in LocalPkgs \ ls.store :
        ls' = [ls EXCEPT !.store = @ \cup {n}]

\* a package is removed from /nix/store
StoreRemove ==
    \E n \in ls.store :
        ls' = [ls EXCEPT !.store = @ \ {n}]

\* addBatch over the names Readdirnames returned
RECURSIVE AddNames(_, _)
AddNames(nt, names) ==
    IF names = {} THEN nt
    ELSE LET n == CHOOSE x \in names : TRUE
         IN AddNames(addBatch(nt, n, 1), names \ {n})

\* catalog.update: clone, add what the directory lists, publish
StoreUpdate ==
    ls' = [ls EXCEPT !.bt = AddNames(ls.bt, ls.store)]

\* getNarInfoCommon for a GET whose upstream record passed the size check:
\* findBase on the published tree, and putRecent when the base is accepted
StoreNarInfo ==
    \E r \in AskedPkgs :
        LET fb == findBase(ls.bt, r.rest, 1)
        IN ls' = IF BaseCode(fb, r.hash) # "" THEN ls
                 ELSE [ls EXCEPT !.recents =
                          LruAdd(@, r.hash, [BaseStorePath |-> fb.storePath])]

StoreOnly == UNCHANGED <<substVars, catVars, differVars, narVars, snapVars, sysVars, ld, pr, waitVars, bf, ex, ck, idl, sf, tee, sg>>

InitStore ==
    SubstParked /\ CatParked /\ DifferParked /\ NarParked /\ SnapParked /\ SysParked /\ LoadParked /\ ProcParked /\ WaitParked
    /\ BufParked /\ ExpandParked /\ KeyParked /\ IdleParked /\ StoreInit
    /\ StrParked /\ TeeParked /\ StageParked
NextStore ==
    \/ StoreInstall /\ StoreOnly
    \/ StoreRemove /\ StoreOnly
    \/ StoreUpdate /\ StoreOnly
    \/ StoreNarInfo /\ StoreOnly
SpecStore == InitStore /\ [][NextStore]_vars

\* C28: whenever an entry exists in the recent memo, the base store path
\* recorded in it is a package of the local store (one nix-store --dump can
\* read), in every state reachable through catalog refreshes, metadata
\* requests and removals of packages.
C28_MemoBaseInStore ==
    \A k \in 1..Len(ls.recents) :
        \E n \in ls.store :
            ls.recents[k].val.BaseStorePath = [hash |-> n.hash, rest |-> n.rest]

-----------------------------------------------------------------------------
(* findDashes and matchLen on their own (catalog.go:225-243): two strings  *)
(* are drawn from a small alphabet and each function is applied once.      *)

MaxStr == 3   \* length of the strings drawn

\* '-', 'a', 'A'
StrBytes == {Dash, 97, 65}
Strs == UNION {[1..n -> StrBytes] : n \in 0..MaxStr}

StrInit ==
    \E a \in Strs, b \in Strs :
        sf = [a |-> a, b |-> b, fdDone |-> FALSE, dashes |-> <<>>,
              mlDone |-> FALSE, match |-> 0]

\* dashes := findDashes(a)
StrFindDashes ==
    /\ ~sf.fdDone
    /\ sf' = [sf EXCEPT !.fdDone = TRUE, !.dashes = findDashes(sf.a)]

\* match := matchLen(a, b)
StrMatchLen ==
    /\ ~sf.mlDone
    /\ sf' = [sf EXCEPT !.mlDone = TRUE, !.match = matchLen(sf.a, sf.b)]

StrOnly == UNCHANGED <<substVars, catVars, differVars, narVars, snapVars, sysVars, ld, pr, waitVars, bf, ex, ck, idl, ls, tee, sg>>

InitStr ==
    SubstParked /\ CatParked /\ DifferParked /\ NarParked /\ SnapParked /\ SysParked /\ LoadParked /\ ProcParked /\ WaitParked
    /\ BufParked /\ ExpandParked /\ KeyParked /\ IdleParked /\ StoreParked /\ StrInit
    /\ TeeParked /\ StageParked
NextStr ==
    \/ StrFindDashes /\ StrOnly
    \/ StrMatchLen /\ StrOnly
SpecStr == InitStr /\ [][NextStr]_vars

\* the 0-based indices of the dashes of s
DashesAt(s) == {i \in 0..(Len(s) - 1) : s[i + 1] = Dash}

\* C29: for every string s, findDashes(s) returns, in ascending order,
\* exactly the indices i with s[i] = '-' (each dash once, leading, trailing
\* and adjacent dashes included), and an empty result when s has no dash.
C29_FindDashesExact ==
    sf.fdDone =>
        /\ {sf.dashes[k] : k \in 1..Len(sf.dashes)} = DashesAt(sf.a)
        /\ Len(sf.dashes) = Cardinality(DashesAt(sf.a))
        /\ \A k \in 1..(Len(sf.dashes) - 1) : sf.dashes[k] < sf.dashes[k + 1]
        /\ (DashesAt(sf.a) = {} => sf.dashes = <<>>)

C29_Witness ==
    /\ sf.fdDone
    /\ sf.a = <<Dash, Dash, Dash>>
    /\ sf.dashes = <<0, 1, 2>>

\* a[i] = b[i] for every 0-based i < n
AgreeUpTo(a, b, n) == \A i \in 1..n : a[i] = b[i]

\* C30: for all strings a and b, matchLen(a, b) is the length of their
\* longest common prefix: the largest n <= min(len(a), len(b)) with
\* a[i] = b[i] for every i < n, byte for byte ('a' and 'A' differ); it is 0
\* when either string is empty.
C30_MatchLenIsPrefix ==
    sf.mlDone =>
        LET lim == Min2(Len(sf.a), Len(sf.b))
        IN /\ sf.match \in 0..lim
           /\ AgreeUpTo(sf.a, sf.b, sf.match)
           /\ \A m \in (sf.match + 1)..lim : ~AgreeUpTo(sf.a, sf.b, m)
           /\ ((sf.a = <<>> \/ sf.b = <<>>) => sf.match = 0)

C30_Witness ==
    /\ sf.mlDone
    /\ Len(sf.a) = MaxStr /\ Len(sf.b) = MaxStr
    /\ sf.a[1] = Dash /\ sf.b[1] = Dash
    /\ sf.a[2] = 97 /\ sf.b[2] = 97
    /\ sf.a[3] = 97 /\ sf.b[3] = 65
    /\ sf.match = 2

-----------------------------------------------------------------------------
(* The differ's write-through cache.  With d.s3cache set the body writer   *)
(* is a teeWriter over the multipart body and an io.Pipe whose read end is *)
(* the Body of an s3manager Upload running in its own goroutine            *)
(* (differ.go:468-495, 600-615, 776-792).  A write to the pipe returns     *)
(* when the uploader has read the bytes or fails when the read end was     *)
(* closed; an uploader that fails either closes the read end or stops      *)
(* reading, and a write to a pipe nobody reads does not return.            *)

NoTee == [pc |-> "create", sent |-> 0, up |-> 0, other |-> TRUE,
          mainFail |-> FALSE, werr |-> FALSE, upl |-> "reading",
          closed |-> "no", created |-> "no", obj |-> "none",
          trailerFail |-> FALSE, status |-> -1]

TeeInit == tee = NoTee

\* a teeWriter that returns the cache's write error too (a faulty variant)
teeWriteErrBoth(mainOk, otherOk) == ~mainOk \/ ~otherOk
\* teeWriter.Write: the error returned is the main writer's
teeWriteErr(mainOk, otherOk) == ~mainOk

\* algo.Create writes a chunk to bw: the client first, then the pipe
TeeWrite ==
    /\ tee.pc = "create" /\ ~tee.werr /\ tee.sent < MaxDelta
    /\ \E mainOk \in BOOLEAN :
          LET toPipe  == mainOk /\ tee.other
              otherOk == ~toPipe \/ tee.upl = "reading"
          IN IF toPipe /\ tee.upl = "stalled"
             THEN tee' = [tee EXCEPT !.sent = @ + 1, !.pc = "blocked"]
             ELSE tee' = [tee EXCEPT
                            !.sent = IF mainOk THEN @ + 1 ELSE @,
                            !.mainFail = ~mainOk,
                            !.up = IF toPipe /\ otherOk THEN @ + 1 ELSE @,
                            !.other = IF toPipe /\ ~otherOk THEN FALSE ELSE @,
                            !.werr = teeWriteErr(mainOk, otherOk)]

\* every close that ends the stream cleanly (a faulty variant)
cacheCloseClean(created) == "eof"
\* differ.go:613-615: cacheWriter.CloseWithError(algoErr)
cacheClose(created) == IF created = "ok" THEN "eof" ELSE "err"

\* algo.Create returns: an error when a write to bw failed (the copy of the
\* subprocess's output stops and Wait reports it), else either outcome
TeeCreateReturn ==
    /\ tee.pc = "create"
    /\ \E created \in {"ok", "err"} :
          /\ tee.werr => created = "err"
          /\ tee' = [tee EXCEPT !.created = created, !.closed = cacheClose(created),
                                !.pc = "trailer"]

\* the Upload call fails before it has read the stream to its end
TeeUploadFail ==
    /\ tee.upl = "reading" /\ tee.obj = "none" /\ tee.pc # "done"
    /\ \E how \in {"aborted", "stalled"} :
          tee' = [tee EXCEPT !.upl = how, !.obj = "failed"]

\* the uploader reads the end of the stream: io.EOF completes the object,
\* the error of CloseWithError fails the Upload call
TeeUploadEnd ==
    /\ tee.upl = "reading" /\ tee.obj = "none" /\ tee.closed # "no"
    /\ \E put \in {"ok", "fail"} :
          tee' = [tee EXCEPT !.obj = IF tee.closed = "eof" /\ put = "ok"
                                     THEN "complete" ELSE "failed",
                             !.upl = "ended"]

\* differ.go:617-639: the trailer and the handler's return value
TeeTrailer ==
    /\ tee.pc = "trailer"
    /\ \E ok \in BOOLEAN :
          tee' = [tee EXCEPT !.trailerFail = ~ok, !.pc = "join",
                             !.status = IF ~ok \/ tee.created = "err" THEN 500 ELSE 0]

\* the deferred cacheJoin: wg.Wait() until the upload goroutine returned
TeeJoin ==
    /\ tee.pc = "join" /\ tee.obj # "none"
    /\ tee' = [tee EXCEPT !.pc = "done"]

\* the server takes the next request
TeeReuse ==
    /\ tee.pc = "done"
    /\ tee' = NoTee

TeeOnly == UNCHANGED <<substVars, catVars, differVars, narVars, snapVars, sysVars, ld, pr, waitVars, bf, ex, ck, idl, ls, sf, sg>>

InitTee ==
    SubstParked /\ CatParked /\ DifferParked /\ NarParked /\ SnapParked /\ SysParked /\ LoadParked /\ ProcParked /\ WaitParked
    /\ BufParked /\ ExpandParked /\ KeyParked /\ IdleParked /\ StoreParked /\ StrParked /\ TeeInit
    /\ StageParked
NextTee ==
    \/ TeeWrite /\ TeeOnly
    \/ TeeCreateReturn /\ TeeOnly
    \/ TeeUploadFail /\ TeeOnly
    \/ TeeUploadEnd /\ TeeOnly
    \/ TeeTrailer /\ TeeOnly
    \/ TeeJoin /\ TeeOnly
    \/ TeeReuse /\ TeeOnly
SpecTee == InitTee /\ [][NextTee]_vars

C32_WitnessCacheFailed ==
    /\ tee.pc = "done" /\ tee.obj = "failed" /\ ~tee.other
    /\ tee.sent = MaxDelta /\ tee.created = "ok" /\ tee.status = 0

-----------------------------------------------------------------------------
(* The stages getNarCommon starts (subst.go:295-342): the archive dumper   *)
(* under procCtx, the expander's reader and writer when the memo names the *)
(* expv2 filter, the decoder (algo.Expand) under procCtx, and with the     *)
(* filter the copy task that reads CollapseNar(filtR) into w.  The         *)
(* expander's output pipe and the pipe filtW/filtR are never closed by the *)
(* handler; a NAR reader stops at the end of a complete archive.           *)

NumStageReqs == 2

StageReqs == 1..NumStageReqs

NoStage == [h |-> "idle", filter |-> FALSE, ctx |-> "live", dumper |-> "none",
            expR |-> "none", expW |-> "none", decoder |-> "none", copy |-> "none",
            whole |-> FALSE, baseRead |-> FALSE]

StageInit == sg = [r \in StageReqs |-> NoStage]

\* getNarCommon up to the call of algo.Expand
StageBegin(r) ==
    /\ sg[r].h = "idle"
    /\ \E f \in BOOLEAN :
          sg' = [sg EXCEPT ![r] =
                   [NoStage EXCEPT !.h = "expand", !.filter = f, !.dumper = "run",
                                   !.expR = IF f THEN "run" ELSE "none",
                                   !.expW = IF f THEN "run" ELSE "none",
                                   !.decoder = "run",
                                   !.copy = IF f THEN "run" ELSE "none"]]

\* the client goes away: the request's context and procCtx are done
StageCancel(r) ==
    /\ sg[r].h \in {"expand", "waitfilter"} /\ sg[r].ctx = "live"
    /\ sg' = [sg EXCEPT ![r].ctx = "done"]

\* the dumper has written the whole base archive and exits
StageDumperExit(r) ==
    /\ sg[r].dumper = "run"
    /\ sg' = [sg EXCEPT ![r].dumper = "done"]

\* algo.Expand returns nil: the base was read to its end and the whole
\* archive was written to output
StageDecoderOk(r) ==
    /\ sg[r].h = "expand" /\ sg[r].decoder = "run" /\ sg[r].ctx = "live"
    /\ sg[r].dumper = "done"
    /\ sg' = [sg EXCEPT ![r].decoder = "done", ![r].whole = TRUE,
                        ![r].baseRead = TRUE, ![r].h = "waitfilter"]

\* the handler returns: the deferred writeNar.Wait() and cancel() run, the
\* dumper is killed if it still runs and reaped
HandlerReturn(s) ==
    [s EXCEPT !.h = "done", !.dumper = "done", !.ctx = "done"]

\* algo.Expand returns an error (a bad delta, a failed write to output, or
\* the kill after procCtx is done); getNarCommon returns at once
StageDecoderErr(r) ==
    /\ sg[r].h = "expand" /\ sg[r].decoder = "run"
    /\ \E all \in BOOLEAN :
          sg' = [sg EXCEPT ![r] =
                   HandlerReturn([sg[r] EXCEPT !.decoder = "done", !.baseRead = all])]

\* readAndExpand ends: its input ended or failed (the dumper is gone) and
\* the last entry went into n.ents, which the writer still drains
StageExpReaderEnd(r) ==
    /\ sg[r].expR = "run" /\ sg[r].dumper = "done"
    /\ sg[r].decoder = "run" \/ sg[r].baseRead
    /\ sg' = [sg EXCEPT ![r].expR = "done"]

\* writeEnts of the expander ends: the channel was closed and everything
\* was written to the pipe, which takes a reader on the other end
StageExpWriterEnd(r) ==
    /\ sg[r].expW = "run" /\ sg[r].expR = "done"
    /\ sg[r].decoder = "run" \/ sg[r].baseRead
    /\ sg' = [sg EXCEPT ![r].expW = "done"]

\* the copy task ends when CollapseNar has read a whole archive from filtR
copyCanEnd(s) == s.whole

\* ioCopy(w, colFilter(filtR)) returns and sends to filterErrCh
StageCopyEnd(r) ==
    /\ sg[r].copy = "run" /\ copyCanEnd(sg[r])
    /\ sg' = [sg EXCEPT ![r].copy = "done"]

\* filterErr := <-filterErrCh, writeNar.Wait(), diff.finish(), return
StageHandlerEnd(r) ==
    /\ sg[r].h = "waitfilter"
    /\ sg[r].copy \in {"none", "done"}
    /\ sg' = [sg EXCEPT ![r] = HandlerReturn(sg[r])]

\* the server takes the next request once nothing of this one is left
StageReuse(r) ==
    /\ sg[r].h = "done"
    /\ \A f \in {"dumper", "expR", "expW", "decoder", "copy"} :
          sg[r][f] \in {"none", "done"}
    /\ sg' = [sg EXCEPT ![r] = NoStage]

StageOnly ==
    UNCHANGED <<substVars, catVars, differVars, narVars, snapVars, sysVars, ld, pr, waitVars, bf, ex, ck, idl, ls, sf, tee>>

InitStage ==
    SubstParked /\ CatParked /\ DifferParked /\ NarParked /\ SnapParked /\ SysParked /\ LoadParked /\ ProcParked /\ WaitParked
    /\ BufParked /\ ExpandParked /\ KeyParked /\ IdleParked /\ StoreParked
    /\ StrParked /\ TeeParked /\ StageInit
NextStage ==
    \/ \E r \in StageReqs : StageBegin(r) /\ StageOnly
    \/ \E r \in StageReqs : StageCancel(r) /\ StageOnly
    \/ \E r \in StageReqs : StageDumperExit(r) /\ StageOnly
    \/ \E r \in StageReqs : StageDecoderOk(r) /\ StageOnly
    \/ \E r \in StageReqs : StageDecoderErr(r) /\ StageOnly
    \/ \E r \in StageReqs : StageExpReaderEnd(r) /\ StageOnly
    \/ \E r \in StageReqs : StageExpWriterEnd(r) /\ StageOnly
    \/ \E r \in StageReqs : StageCopyEnd(r) /\ StageOnly
    \/ \E r \in StageReqs : StageHandlerEnd(r) /\ StageOnly
    \/ \E r \in StageReqs : StageReuse(r) /\ StageOnly

\* a stage that can end does end
SpecStage ==
    /\ InitStage /\ [][NextStage]_vars
    /\ \A r \in StageReqs :
          /\ WF_vars(StageExpReaderEnd(r) /\ StageOnly)
          /\ WF_vars(StageExpWriterEnd(r) /\ StageOnly)
          /\ WF_vars(StageCopyEnd(r) /\ StageOnly)

StagesEnded(r) ==
    \A f \in {"dumper", "expR", "expW", "decoder", "copy"} :
        sg[r][f] \in {"none", "done"}

\* C37: every stage the archive handler started eventually terminates once
\* the handler has returned: on success, on cancellation, and when
\* algo.Expand returns an error while a collapse filter is active.
C37_StagesEnd ==
    \A r \in StageReqs : (sg[r].h = "done") ~> StagesEnded(r)

\* the same for requests without the filter and for requests whose decoder
\* returned without error
C37_StagesEndNoFilterOrOk ==
    \A r \in StageReqs :
        (sg[r].h = "done" /\ (~sg[r].filter \/ sg[r].whole)) ~> StagesEnded(r)

-----------------------------------------------------------------------------
(* The differ's handler (differ.go, differServer.differ) for concurrent    *)
(* requests that share the three semaphores of the differServer, with no   *)
(* write-through cache configured (d.s3cache == nil).                      *)

\* strings.Cut(a, "-") on a token given as its sequence of symbols
RECURSIVE CutAt(_, _)
CutAt(a, k) ==
    IF k > Len(a) THEN [name |-> a, level |-> <<>>, found |-> FALSE]
    ELSE IF a[k] = "-"
    THEN [name |-> SubSeq(a, 1, k - 1), level |-> SubSeq(a, k + 1, Len(a)), found |-> TRUE]
    ELSE CutAt(a, k + 1)
Cut(a) == CutAt(a, 1)

Digits == {"0", "1", "2", "3", "4", "5", "6", "7", "8", "9"}
DigitVal(c) ==
    CASE c = "0" -> 0 [] c = "1" -> 1 [] c = "2" -> 2 [] c = "3" -> 3 [] c = "4" -> 4
      [] c = "5" -> 5 [] c = "6" -> 6 [] c = "7" -> 7 [] c = "8" -> 8 [] c = "9" -> 9

RECURSIVE DecVal(_, _)
DecVal(s, acc) == IF s = <<>> THEN acc ELSE DecVal(Tail(s), 10 * acc + DigitVal(Head(s)))

\* strconv.Atoi: an optional sign and at least one digit
Atoi(s) ==
    LET body == IF s # <<>> /\ Head(s) \in {"-", "+"} THEN Tail(s) ELSE s
    IN IF body = <<>> \/ \E k \in 1..Len(body) : body[k] \notin Digits
       THEN [err |-> TRUE, val |-> 0]
       ELSE [err |-> FALSE,
             val |-> IF Head(s) = "-" THEN 0 - DecVal(body, 0) ELSE DecVal(body, 0)]

\* a name is the word of its single symbol; anything longer is no known word
NameStr(n) == IF Len(n) = 1 THEN n[1] ELSE "?"

\* pickAlgo looking at the first token only (a faulty variant)
pickAlgoFirstOnly(accept) ==
    IF accept = <<>> THEN getAlgo("")
    ELSE LET c    == Cut(Head(accept))
             algo == getAlgo(NameStr(c.name))
         IN IF algo.name # "" /\ c.found /\ ~Atoi(c.level).err
            THEN [algo EXCEPT !.level = Atoi(c.level).val]
            ELSE algo

\* pickAlgo: the first token whose name getAlgo knows, with its level
RECURSIVE pickAlgo(_)
pickAlgo(accept) ==
    IF accept = <<>> THEN getAlgo("")
    ELSE LET c    == Cut(Head(accept))
             algo == getAlgo(NameStr(c.name))
         IN IF algo.name # ""
            THEN IF c.found /\ ~Atoi(c.level).err
                 THEN [algo EXCEPT !.level = Atoi(c.level).val]
                 ELSE algo
            ELSE pickAlgo(Tail(accept))

\* req.AcceptAlgos as clients send it
AcceptLists ==
    { <<>>,
      << <<"zstd", "-", "3">>, <<"xdelta", "-", "1">> >>,
      << <<"bogus", "-", "1">>, <<"xdelta">> >>,
      << <<"zstd", "-", "x">> >>,
      << <<"bogus">>, <<"zstd", "x", "-", "2">> >>,
      << <<"xdelta", "-", "-", "1">>, <<"zstd", "-", "3">> >> }

\* Go's int64 arithmetic at the model's width
Wrap(v) == ((v + 2 ^ (IntBits - 1)) % 2 ^ IntBits) - 2 ^ (IntBits - 1)

\* semaphore.NewWeighted(getTempDirFreeBytes()) at the scale of DiffSizes,
\* semaphore.NewWeighted(runtime.NumCPU()) for downloads and for deltas
DiskBudget  == 3
Concurrency == 1

\* req.ReqNarSize: small archives, and one whose doubling leaves int64
DiffSizes == {1, 2, 2 ^ (IntBits - 2)}

\* the requests clients send: AcceptAlgos, ReqNarSize, NarFilter
DInput(accept, size, filter) == [accept |-> accept, size |-> size, filter |-> filter]
DInputs ==
    { DInput(<< <<"zstd", "-", "3">>, <<"xdelta", "-", "1">> >>, 1, ""),
      DInput(<< <<"bogus", "-", "1">>, <<"xdelta">> >>, 1, "expv2"),
      DInput(<< <<"zstd", "-", "x">> >>, 2, ""),
      DInput(<< <<"xdelta", "-", "-", "1">>, <<"zstd", "-", "3">> >>, 2 ^ (IntBits - 2), ""),
      DInput(<< <<"bogus">>, <<"zstd", "x", "-", "2">> >>, 1, ""),
      DInput(<<>>, 1, "expv2") }

DReqs == 1..NumDiffers

DlIdle == [req |-> "idle", base |-> "idle"]
NoDPc  == [h |-> "idle", g |-> DlIdle, ctx |-> "live"]
NoDReq == [method |-> "", decode |-> "", accept |-> <<>>, size |-> 0, filter |-> "",
           algo |-> getAlgo("")]
NoDObs == [created |-> "no", delta |-> 0, wfail |-> FALSE, disk |-> 0, reserved |-> FALSE,
           everReserved |-> FALSE, dlStarted |-> FALSE, deltaHeld |-> FALSE,
           createCalled |-> FALSE, slotAtCreate |-> FALSE,
           gerr |-> "", status |-> 0, panicked |-> FALSE,
           deltaFirst |-> FALSE, trailerEarly |-> FALSE]
NoDSem == [disk |-> 0, dl |-> 0, delta |-> 0]

DifferInit ==
    /\ dpc = [r \in DReqs |-> NoDPc]
    /\ dreq = [r \in DReqs |-> NoDReq]
    /\ dparts = [r \in DReqs |-> <<>>]
    /\ dobs = [r \in DReqs |-> NoDObs]
    /\ dsem = NoDSem

\* a handler that leaves the worker slot taken (a faulty variant)
deltaReleasedNever(o) == 0
\* defer d.deltaSem.Release(1), registered once the Acquire has succeeded
deltaReleased(o) == IF o.deltaHeld THEN 1 ELSE 0

\* the handler returns `status` through fw.  The deferred releases run
\* first: deltaSem.Release(1), then diskSem.Release(size), which panics when
\* the count falls below zero; the panic unwinds through fw, so no status is
\* written.  A status is the handler's unless a part was already written.
DifferReturn(r, status, o, parts) ==
    LET disk1 == dsem.disk - o.disk
        panic == o.reserved /\ disk1 < 0
    IN /\ dpc' = [dpc EXCEPT ![r].h = "done"]
       /\ dsem' = [dsem EXCEPT !.disk = disk1,
                               !.delta = @ - deltaReleased(o)]
       /\ dobs' = [dobs EXCEPT ![r] =
                     [o EXCEPT !.disk = 0, !.reserved = FALSE, !.deltaHeld = FALSE,
                               !.panicked = panic,
                               !.status = IF parts # <<>> THEN 200
                                          ELSE IF panic THEN 0
                                          ELSE IF status = 0 THEN 200 ELSE status]]

\* the client goes away: r.Context() is done
DifferCancel(r) ==
    /\ dpc[r].h \notin {"idle", "done"} /\ dpc[r].ctx = "live"
    /\ dpc' = [dpc EXCEPT ![r].ctx = "done"]
    /\ UNCHANGED <<dreq, dparts, dobs, dsem>>

\* differ.go:498-520: method, body decode, pickAlgo
DifferStart(r) ==
    /\ dpc[r].h = "idle"
    /\ \E method \in {"POST", "GET"}, decode \in {"ok", "bad"}, in \in DInputs :
          LET algo == pickAlgo(in.accept)
              q    == [method |-> method, decode |-> decode, accept |-> in.accept,
                       size |-> in.size, filter |-> in.filter, algo |-> algo]
          IN /\ dreq' = [dreq EXCEPT ![r] = q]
             /\ dparts' = [dparts EXCEPT ![r] = <<>>]
             /\ IF method # "POST" THEN DifferReturn(r, 405, NoDObs, <<>>)
                ELSE IF decode = "bad" THEN DifferReturn(r, 400, NoDObs, <<>>)
                ELSE IF algo.name = "" THEN DifferReturn(r, 400, NoDObs, <<>>)
                ELSE /\ dpc' = [dpc EXCEPT ![r].h = "disk"]
                     /\ dobs' = [dobs EXCEPT ![r] = NoDObs]
                     /\ UNCHANGED dsem

\* differ.go:522-527: size := req.ReqNarSize * 2; diskSem.Acquire(ctx, size)
DifferDisk(r) ==
    /\ dpc[r].h = "disk"
    /\ LET size == Wrap(dreq[r].size * 2)
       IN \/ /\ SemFree(dsem.disk, DiskBudget, size)
             /\ dsem' = [dsem EXCEPT !.disk = @ + size]
             /\ dpc' = [dpc EXCEPT ![r].h = "download",
                                   ![r].g = [req |-> "wait", base |-> "wait"]]
             /\ dobs' = [dobs EXCEPT ![r].disk = size, ![r].reserved = TRUE,
                                     ![r].everReserved = TRUE]
          \/ /\ ~SemFree(dsem.disk, DiskBudget, size)
             /\ dpc[r].ctx = "done"
             /\ DifferReturn(r, 507, dobs[r], dparts[r])
    /\ UNCHANGED <<dreq, dparts>>

\* g.Go(...): dlSem.Acquire(r.Context(), 1) in one of the two download tasks
DlAcquire(r, t) ==
    /\ dpc[r].h = "download" /\ dpc[r].g[t] = "wait"
    /\ \/ /\ SemFree(dsem.dl, Concurrency, 1)
          /\ dsem' = [dsem EXCEPT !.dl = @ + 1]
          /\ dpc' = [dpc EXCEPT ![r].g[t] = "run"]
          /\ dobs' = [dobs EXCEPT ![r].dlStarted = TRUE]
       \/ /\ ~SemFree(dsem.dl, Concurrency, 1)
          /\ dpc[r].ctx = "done"
          /\ dpc' = [dpc EXCEPT ![r].g[t] = "canceled"]
          /\ dobs' = [dobs EXCEPT ![r].gerr = IF @ = "" THEN "canceled" ELSE @]
          /\ UNCHANGED dsem
    /\ UNCHANGED <<dreq, dparts>>

\* what a download task can return.  downloadNar (differ.go:642-718) fails
\* on an http or decompress error; when only the filter's copy failed it
\* returns ("", err) with err == nil.  downloadNarFromInfo (differ.go:721-745)
\* returns errNotFound for a 404 of the metadata lookup.
DlResults(t, filter) ==
    {"ok", "err"}
    \cup (IF t = "base" THEN {"notfound"} ELSE {})
    \cup (IF filter = "expv2" THEN {"filtererr"} ELSE {})

\* the value the task gives to the errgroup: "" for nil
DlErr(res) == IF res \in {"notfound", "err"} THEN res ELSE ""

\* a download task returns and releases dlSem; errgroup keeps the first error
DlFinish(r, t) ==
    /\ dpc[r].h = "download" /\ dpc[r].g[t] = "run"
    /\ \E res \in DlResults(t, dreq[r].filter) :
          /\ dpc' = [dpc EXCEPT ![r].g[t] = res]
          /\ dobs' = [dobs EXCEPT ![r].gerr = IF @ = "" THEN DlErr(res) ELSE @]
    /\ dsem' = [dsem EXCEPT !.dl = @ - 1]
    /\ UNCHANGED <<dreq, dparts>>

\* the answer to a download error (differ.go:566-571)
DownloadStatus(gerr) == IF gerr = "notfound" THEN 404 ELSE 500

\* differ.go:562-571: g.Wait and the download error answers
DifferWait(r) ==
    /\ dpc[r].h = "download"
    /\ \A t \in {"req", "base"} : dpc[r].g[t] \notin {"wait", "run"}
    /\ IF dobs[r].gerr # ""
       THEN DifferReturn(r, DownloadStatus(dobs[r].gerr), dobs[r], dparts[r])
       ELSE /\ dpc' = [dpc EXCEPT ![r].h = "delta"]
            /\ UNCHANGED <<dobs, dsem>>
    /\ UNCHANGED <<dreq, dparts>>

\* differ.go:573-576: deltaSem.Acquire(r.Context(), 1)
DifferDeltaAcquire(r) ==
    /\ dpc[r].h = "delta"
    /\ \/ /\ SemFree(dsem.delta, Concurrency, 1)
          /\ dsem' = [dsem EXCEPT !.delta = @ + 1]
          /\ dpc' = [dpc EXCEPT ![r].h = "header"]
          /\ dobs' = [dobs EXCEPT ![r].deltaHeld = TRUE]
       \/ /\ ~SemFree(dsem.delta, Concurrency, 1)
          /\ dpc[r].ctx = "done"
          /\ DifferReturn(r, 500, dobs[r], dparts[r])
    /\ UNCHANGED <<dreq, dparts>>

\* a write to the client: it fails once the connection has failed, and it
\* can fail at any write
WriteOutcomes(r) == IF dobs[r].wfail THEN {FALSE} ELSE {TRUE, FALSE}

\* differ.go:581-595: writeJsonField(mpw, "header", h)
DifferHeader(r) ==
    /\ dpc[r].h = "header"
    /\ \E ok \in WriteOutcomes(r) :
          IF ok
          THEN /\ dparts' = [dparts EXCEPT ![r] =
                               Append(@, [name |-> differHeaderName,
                                          algo |-> dreq[r].algo.name, bytes |-> 0,
                                          ok |-> FALSE,
                                          stats |-> FALSE, error |-> ""])]
               /\ dpc' = [dpc EXCEPT ![r].h = "body"]
               /\ UNCHANGED <<dobs, dsem>>
          ELSE /\ dparts' = dparts
               /\ DifferReturn(r, 500, [dobs[r] EXCEPT !.wfail = TRUE], dparts[r])
    /\ UNCHANGED dreq

\* differ.go:597-611: mpw.CreateFormFile("body", "delta"), its error dropped,
\* and the call of algo.Create
DifferBody(r) ==
    /\ dpc[r].h = "body"
    /\ \E ok \in WriteOutcomes(r) :
          IF ok
          THEN /\ dparts' = [dparts EXCEPT ![r] =
                               Append(@, [name |-> differBodyName, algo |-> "",
                                          bytes |-> 0, ok |-> FALSE,
                                          stats |-> FALSE, error |-> ""])]
               /\ dobs' = [dobs EXCEPT ![r].createCalled = TRUE,
                                       ![r].slotAtCreate = dobs[r].deltaHeld]
          ELSE /\ dparts' = dparts
               /\ dobs' = [dobs EXCEPT ![r].wfail = TRUE, ![r].createCalled = TRUE,
                                       ![r].slotAtCreate = dobs[r].deltaHeld]
    /\ dpc' = [dpc EXCEPT ![r].h = "create"]
    /\ UNCHANGED <<dreq, dsem>>

\* algo.Create writes a chunk of the delta to bw
DifferCreateWrite(r) ==
    /\ dpc[r].h = "create" /\ dobs[r].delta < MaxDelta /\ ~dobs[r].wfail
    /\ \E ok \in WriteOutcomes(r) :
          IF ok
          THEN /\ dparts' = [dparts EXCEPT ![r][Len(dparts[r])].bytes = @ + 1]
               /\ dobs' = [dobs EXCEPT ![r].delta = @ + 1,
                              ![r].deltaFirst = @ \/ dparts[r][1].name # differHeaderName]
          ELSE /\ dparts' = dparts
               /\ dobs' = [dobs EXCEPT ![r].wfail = TRUE]
    /\ UNCHANGED <<dpc, dreq, dsem>>

\* the trailer skipped when Create failed (a faulty variant)
TrailerOnSuccessOnly(created) == IF created = "ok" THEN "trailer" ELSE "return"
\* the step after algo.Create returned: the trailer, on either outcome
AfterCreate(created) == "trailer"

\* differ.go:607-611: algo.Create returns stats or an error
DifferCreateReturn(r) ==
    /\ dpc[r].h = "create"
    /\ \E created \in {"ok", "err"} :
          IF AfterCreate(created) = "trailer"
          THEN /\ dpc' = [dpc EXCEPT ![r].h = "trailer"]
               /\ dobs' = [dobs EXCEPT ![r].created = created]
               /\ UNCHANGED dsem
          ELSE DifferReturn(r, 500, [dobs[r] EXCEPT !.created = created], dparts[r])
    /\ UNCHANGED <<dreq, dparts>>

\* a trailer that says ok whatever Create returned (a faulty variant)
trailerAlwaysOk(created) == [ok |-> TRUE, stats |-> TRUE, error |-> ""]
\* differ.go:617-627: Ok, Stats and Error of the trailer; stats is whether
\* Stats is set, error is algoErr.Error() or the empty string
trailerOf(created) ==
    IF created = "ok" THEN [ok |-> TRUE, stats |-> TRUE, error |-> ""]
    ELSE [ok |-> FALSE, stats |-> FALSE, error |-> "algo error"]

\* differ.go:617-639: the trailer and the handler's return value
DifferTrailer(r) ==
    /\ dpc[r].h = "trailer"
    /\ \E ok \in WriteOutcomes(r) :
          IF ok
          THEN /\ dparts' = [dparts EXCEPT ![r] =
                               Append(@, [name |-> differTrailerName, algo |-> "",
                                          bytes |-> 0] @@ trailerOf(dobs[r].created))]
               /\ DifferReturn(r, IF dobs[r].created = "err" THEN 500 ELSE 0,
                               [dobs[r] EXCEPT !.trailerEarly = dobs[r].created = "no"],
                               dparts'[r])
          ELSE /\ dparts' = dparts
               /\ DifferReturn(r, 500, [dobs[r] EXCEPT !.wfail = TRUE], dparts[r])
    /\ UNCHANGED dreq

\* the server takes the next request
DifferReuse(r) ==
    /\ dpc[r].h = "done"
    /\ dpc' = [dpc EXCEPT ![r] = NoDPc]
    /\ dreq' = [dreq EXCEPT ![r] = NoDReq]
    /\ dparts' = [dparts EXCEPT ![r] = <<>>]
    /\ dobs' = [dobs EXCEPT ![r] = NoDObs]
    /\ UNCHANGED dsem

DifferOnly == UNCHANGED <<substVars, catVars, narVars, snapVars, sysVars, ld, pr, waitVars, bf, ex, ck, idl, ls, sf, tee, sg>>

InitDiffer ==
    SubstParked /\ CatParked /\ DifferInit /\ NarParked /\ SnapParked /\ SysParked /\ LoadParked /\ ProcParked /\ WaitParked
    /\ BufParked /\ ExpandParked /\ KeyParked /\ IdleParked /\ StoreParked
    /\ StrParked /\ TeeParked /\ StageParked
NextDiffer ==
    \/ \E r \in DReqs : DifferStart(r) /\ DifferOnly
    \/ \E r \in DReqs : DifferCancel(r) /\ DifferOnly
    \/ \E r \in DReqs : DifferDisk(r) /\ DifferOnly
    \/ \E r \in DReqs, t \in {"req", "base"} : DlAcquire(r, t) /\ DifferOnly
    \/ \E r \in DReqs, t \in {"req", "base"} : DlFinish(r, t) /\ DifferOnly
    \/ \E r \in DReqs : DifferWait(r) /\ DifferOnly
    \/ \E r \in DReqs : DifferDeltaAcquire(r) /\ DifferOnly
    \/ \E r \in DReqs : DifferHeader(r) /\ DifferOnly
    \/ \E r \in DReqs : DifferBody(r) /\ DifferOnly
    \/ \E r \in DReqs : DifferCreateWrite(r) /\ DifferOnly
    \/ \E r \in DReqs : DifferCreateReturn(r) /\ DifferOnly
    \/ \E r \in DReqs : DifferTrailer(r) /\ DifferOnly
    \/ \E r \in DReqs : DifferReuse(r) /\ DifferOnly
SpecDiffer == InitDiffer /\ [][NextDiffer]_vars

PartNames(r) == [k \in 1..Len(dparts[r]) |-> dparts[r][k].name]
ThreeParts == <<"header", "body", "trailer">>

\* C6: the parts of a differ response are written in the order header, body,
\* trailer, each once: the header names the chosen algorithm and precedes
\* every delta byte, the trailer is written only after algo.Create returned,
\* and a response whose writes all reached the client ends with exactly the
\* three parts, whether Create succeeded or failed.
C6_ThreePartsInOrder ==
    \A r \in DReqs :
        /\ PartNames(r) = SubSeq(ThreeParts, 1, Len(dparts[r]))
        /\ Len(dparts[r]) >= 1 =>
              dparts[r][1].algo = dreq[r].algo.name /\ dreq[r].algo.name # ""
        /\ dobs[r].delta > 0 => Len(dparts[r]) >= 2 /\ dparts[r][2].bytes = dobs[r].delta
        /\ ~dobs[r].deltaFirst /\ ~dobs[r].trailerEarly
        /\ Len(dparts[r]) = 3 => dobs[r].created \in {"ok", "err"}
        /\ (dpc[r].h = "done" /\ dparts[r] # <<>> /\ ~dobs[r].wfail) =>
              /\ PartNames(r) = ThreeParts
              /\ dobs[r].created \in {"ok", "err"}

\* C33: in every differ response that reaches the body part, the trailer's
\* ok field is true if and only if algo.Create returned without error; with
\* ok true the trailer carries the stats, with ok false it carries the error
\* text and no stats.
C33_TrailerTellsCreate ==
    \A r \in DReqs :
        (Len(dparts[r]) = 3 /\ dparts[r][2].name = differBodyName) =>
            LET t == dparts[r][3]
            IN /\ t.name = differTrailerName
               /\ t.ok <=> dobs[r].created = "ok"
               /\ t.ok => (t.stats /\ t.error = "")
               /\ ~t.ok => (~t.stats /\ t.error # "" /\ dobs[r].created = "err")

C33_Witness ==
    \E r \in DReqs :
        /\ Len(dparts[r]) = 3 /\ dobs[r].created = "err" /\ dobs[r].delta > 0
        /\ ~dparts[r][3].ok /\ dparts[r][3].error # ""

C6_Witness ==
    \E r \in DReqs :
        /\ dpc[r].h = "done" /\ PartNames(r) = ThreeParts
        /\ dobs[r].created = "err" /\ dobs[r].delta > 0

\* a request that got past the method check and the JSON decoding
Decoded(r) == dpc[r].h # "idle" /\ dreq[r].method = "POST" /\ dreq[r].decode = "ok"

\* the part of a token before its first "-", and the text after it
TokName(tok) ==
    IF \E k \in 1..Len(tok) : tok[k] = "-"
    THEN SubSeq(tok, 1, (CHOOSE k \in 1..Len(tok) :
                            tok[k] = "-" /\ \A j \in 1..(k - 1) : tok[j] # "-") - 1)
    ELSE tok
TokLevelText(tok) == SubSeq(tok, Len(TokName(tok)) + 2, Len(tok))
TokSupported(tok) == TokName(tok) \in {<<"zstd">>, <<"xdelta">>}

\* C12: the differ uses the first token of acceptAlgos whose name is zstd or
\* xdelta, ignoring unsupported tokens before it, and adopts the level of
\* that token when the token has one that parses as an integer; when no
\* token names a supported algorithm it answers 400 and makes no reservation
\* and no download.
C12_FirstSupportedAlgo ==
    \A r \in DReqs :
        Decoded(r) =>
            LET acc == dreq[r].accept
                sup == {k \in 1..Len(acc) : TokSupported(acc[k])}
            IN IF sup = {}
               THEN /\ dpc[r].h = "done"
                    /\ dobs[r].status = 400
                    /\ ~dobs[r].everReserved /\ ~dobs[r].dlStarted
                    /\ dparts[r] = <<>>
               ELSE LET k   == CHOOSE i \in sup : \A j \in sup : i <= j
                        lvl == Atoi(TokLevelText(acc[k]))
                    IN /\ <<dreq[r].algo.name>> = TokName(acc[k])
                       /\ (Len(TokName(acc[k])) < Len(acc[k]) /\ ~lvl.err) =>
                              dreq[r].algo.level = lvl.val
                       /\ ~(dpc[r].h = "done" /\ dobs[r].status = 400)

C12_Witness ==
    /\ \E r \in DReqs :
          /\ Decoded(r) /\ Len(dreq[r].accept) = 2
          /\ ~TokSupported(dreq[r].accept[1])
          /\ dreq[r].algo.name = "xdelta" /\ dobs[r].dlStarted
    /\ \E r \in DReqs :
          /\ Decoded(r) /\ dreq[r].accept = << <<"xdelta", "-", "-", "1">>, <<"zstd", "-", "3">> >>
          /\ dreq[r].algo.level = 0 - 1

\* C13: when the base metadata lookup returned 404 the differ answers 404,
\* and when a download of either archive failed in another way it answers
\* 500, in whatever order the two download tasks ran and also when the
\* request-archive download failed as well.
C13_Download404Or500 ==
    \A r \in DReqs :
        dpc[r].h = "done" =>
            /\ dpc[r].g.base = "notfound" => dobs[r].status = 404
            /\ (/\ dpc[r].g.base # "notfound"
                /\ \E t \in {"req", "base"} : dpc[r].g[t] \in {"err", "filtererr"}) =>
                  dobs[r].status = 500

\* C14: algo.Create is invoked only after the request-archive download and
\* the base-archive download, decompression and expansion included, have both
\* completed successfully and a delta-worker slot is held; when either
\* download failed, Create is never invoked and no part is written.
C14_CreateAfterDownloads ==
    \A r \in DReqs :
        /\ dobs[r].createCalled =>
              /\ dpc[r].g.req = "ok" /\ dpc[r].g.base = "ok"
              /\ dobs[r].slotAtCreate
        /\ (\E t \in {"req", "base"} :
                dpc[r].g[t] \in {"err", "notfound", "filtererr", "canceled"}) =>
              /\ ~dobs[r].createCalled
              /\ dparts[r] = <<>>

\* the requests that hold a reservation of the byte budget
InFlight == {r \in DReqs : dobs[r].reserved}

RECURSIVE SumReserved(_)
SumReserved(rs) ==
    IF rs = {} THEN 0
    ELSE LET r == CHOOSE x \in rs : TRUE
         IN 2 * dreq[r].size + SumReserved(rs \ {r})

\* C15: a differ request reserves 2 x reqNarSize of the byte budget before
\* any of its downloads starts; the reservations held by the requests in
\* flight never add up to more than the budget; a request whose reservation
\* fails is answered 507 and starts no download.
C15_DiskBudget ==
    /\ \A r \in DReqs :
          /\ dobs[r].dlStarted => dobs[r].everReserved
          /\ dpc[r].h \in {"download", "delta", "header", "body", "create", "trailer"} =>
                dobs[r].reserved
          /\ dobs[r].reserved => dobs[r].disk = 2 * dreq[r].size
          /\ (dpc[r].h = "done" /\ dobs[r].status = 507) =>
                ~dobs[r].everReserved /\ ~dobs[r].dlStarted
          /\ (Decoded(r) /\ dpc[r].h = "done" /\ dreq[r].algo.name # ""
                /\ ~dobs[r].everReserved) => dobs[r].status = 507
    /\ SumReserved(InFlight) <= DiskBudget

\* what a request holds of each of the differ's semaphores
HeldDisk(r)  == IF dobs[r].reserved THEN dobs[r].disk ELSE 0
HeldDl(r)    ==
    Cardinality({t \in {"req", "base"} : dpc[r].h = "download" /\ dpc[r].g[t] = "run"})
HeldDelta(r) == IF dobs[r].deltaHeld THEN 1 ELSE 0

RECURSIVE SumOver(_, _)
SumOver(H(_), S) ==
    IF S = {} THEN 0
    ELSE LET r == CHOOSE x \in S : TRUE IN H(r) + SumOver(H, S \ {r})

HoldsNothing(r) == HeldDisk(r) = 0 /\ HeldDl(r) = 0 /\ HeldDelta(r) = 0 /\ ~dobs[r].reserved

C39_SubstSemsBalanced ==
    /\ nisem = Cardinality({p \in Conns : pc[p] \in {"ni_up", "ni_put"}})
    /\ nsem = Cardinality({p \in Conns : pc[p] \in {"nar_diff", "nar_stream"}})
    /\ (\A p \in Conns : pc[p] \in {"idle", "done"}) => (nisem = 0 /\ nsem = 0)

-----------------------------------------------------------------------------
(* Cache keys.  The substituter computes the key of a memoised request to  *)
(* read the cache (subst.go:169-174), the differ computes it to write the  *)
(* delta it made (differ.go:472); both pass the name of the algorithm that *)
(* pickAlgo chose from the request's AcceptAlgos.                          *)

KeySlots == {1, 2}

\* differ requests
KeyReqs ==
    [Upstream : {"u1", "u2"}, ReqNarPath : {"n1", "n2"}, BaseStorePath : {"b1"},
     BaseNarSize : {1, 2}, ReqNarSize : {4},
     NarFilter : {"", "expv2"},
     AcceptAlgos : { << <<"zstd", "-", "3">> >>,
                     << <<"zstd", "-", "9">>, <<"xdelta">> >>,
                     << <<"xdelta", "-", "1">> >> },
     ReqName : {"x", "y"}]

\* the lines written to the hash, with the request's name among them (a
\* faulty variant)
cacheKeyWithName(req, algo) ==
    <<"v1-", <<"up=", req.Upstream>>, <<"req=", req.ReqNarPath>>,
      <<"base=", req.BaseStorePath>>,
      <<"sizes=", req.BaseNarSize, req.ReqNarSize>>, <<"algo=", algo>>,
      <<"name=", req.ReqName>> >>
    \o (IF req.NarFilter # "" THEN << <<"filter=", req.NarFilter>> >> ELSE <<>>)

\* cacheKey: "v1-" and the digest of the lines written to the hash; the
\* digest (sha256, base64, 36 characters) is kept as the lines themselves
cacheKey(req, algo) ==
    <<"v1-", <<"up=", req.Upstream>>, <<"req=", req.ReqNarPath>>,
      <<"base=", req.BaseStorePath>>,
      <<"sizes=", req.BaseNarSize, req.ReqNarSize>>, <<"algo=", algo>> >>
    \o (IF req.NarFilter # "" THEN << <<"filter=", req.NarFilter>> >> ELSE <<>>)

KeyInit ==
    \E a \in KeyReqs, b \in KeyReqs :
        ck = [i \in KeySlots |->
                [req |-> IF i = 1 THEN a ELSE b, key |-> <<>>, by |-> ""]]

\* subst.getDiff: algo := pickAlgo(recent.request.AcceptAlgos);
\* key := cacheKey(&recent.request, algo.Name())
KeySubst(i) ==
    /\ ck[i].by = ""
    /\ ck' = [ck EXCEPT ![i].by = "subst",
                 ![i].key = cacheKey(ck[i].req, pickAlgo(ck[i].req.AcceptAlgos).name)]

\* the differ: algo from pickAlgo(req.AcceptAlgos) with its level set;
\* prepareCacheWriter: key := cacheKey(req, algo)
KeyDiffer(i) ==
    /\ ck[i].by = ""
    /\ ck' = [ck EXCEPT ![i].by = "differ",
                 ![i].key = cacheKey(ck[i].req, pickAlgo(ck[i].req.AcceptAlgos).name)]

KeyOnly ==
    UNCHANGED <<substVars, catVars, differVars, narVars, snapVars, sysVars,
                ld, pr, waitVars, bf, ex, idl, ls, sf, tee, sg>>

InitKey ==
    /\ SubstParked /\ CatParked /\ DifferParked /\ NarParked /\ SnapParked
    /\ SysParked /\ LoadParked /\ ProcParked /\ WaitParked /\ BufParked
    /\ ExpandParked /\ KeyInit /\ IdleParked /\ StoreParked /\ StrParked
    /\ TeeParked /\ StageParked
NextKey ==
    \/ \E i \in KeySlots : KeySubst(i) /\ KeyOnly
    \/ \E i \in KeySlots : KeyDiffer(i) /\ KeyOnly
SpecKey == InitKey /\ [][NextKey]_vars

\* the two requests agree on the fields the key is made of
SameKeyFields(a, b) ==
    /\ a.Upstream = b.Upstream /\ a.ReqNarPath = b.ReqNarPath
    /\ a.BaseStorePath = b.BaseStorePath
    /\ a.BaseNarSize = b.BaseNarSize /\ a.ReqNarSize = b.ReqNarSize
    /\ pickAlgo(a.AcceptAlgos).name = pickAlgo(b.AcceptAlgos).name
    /\ a.NarFilter = b.NarFilter

\* C24: cacheKey is a deterministic function of upstream, reqNarPath,
\* baseStorePath, baseNarSize, reqNarSize, the algorithm name and (when
\* non-empty) narFilter: two differ requests that agree on these get the
\* same key whatever their algorithm level, acceptAlgos and reqName are.
C24_KeyIgnoresLevel ==
    \A i \in KeySlots, j \in KeySlots :
        (ck[i].by # "" /\ ck[j].by # "" /\ SameKeyFields(ck[i].req, ck[j].req))
            => ck[i].key = ck[j].key

C24_Witness ==
    /\ ck[1].by = "subst" /\ ck[2].by = "differ"
    /\ SameKeyFields(ck[1].req, ck[2].req)
    /\ ck[1].req.AcceptAlgos # ck[2].req.AcceptAlgos
    /\ pickAlgo(ck[1].req.AcceptAlgos).level # pickAlgo(ck[2].req.AcceptAlgos).level
    /\ ck[1].req.ReqName # ck[2].req.ReqName
    /\ ck[1].key = ck[2].key

-----------------------------------------------------------------------------
(* ExpandNar and CollapseNar (narexpander.go) over archives given as the   *)
(* list of their entries.  A body is kept by its format and what it holds, *)
(* so that parsing, decompressing and recompressing are computed.          *)

XzExt == <<46, 120, 122>>                                        \* ".xz"
narExpMetaSuffix == <<1, 95, 101, 120, 112, 49, 109, 101, 116, 97, 95>>
narExpDataSuffix == <<1, 95, 101, 120, 112, 50, 100, 97, 116, 97, 95>>

\* len is the length of the content; off is what the size recorded in the
\* xz index or the gzip trailer differs from it by (0 in a stream written
\* by `xz -c` or `gzip -nc` for less than 4 GiB)
NoBody == [fmt |-> "none", check |-> 0, bits |-> 0, flags |-> 0, data |-> 0, len |-> 0,
           off |-> 0, a |-> "", o |-> <<>>, c |-> 0]

\* n bytes that are no xz stream, no gzip member and no JSON
RawBody(d, n) == [NoBody EXCEPT !.fmt = "raw", !.data = d, !.len = n]

\* the dictionary size parseXz derives from the lzma2 property byte
DictSize(bits) ==
    LET odd == bits % 2
    IN (2 + odd) * 2^((bits \div 2) + 11)

\* the options parseXz recovers from the stream header and the first block
XzOptions(check, bits) ==
    << (IF check = 0 THEN "--check=none"
        ELSE IF check = 1 THEN "--check=crc32"
        ELSE IF check = 4 THEN "--check=crc64"
        ELSE "--check=sha256"),
       <<"--lzma2=dict=", DictSize(bits)>> >>

\* the length of the stream `xz -c` writes for n input bytes
XzLen(n) == 32 + n
\* the length of the member `gzip -nc` writes for n input bytes
GzLen(n) == 18 + n

\* `xz -c <opts>` on a raw body
XzCompress(raw, opts) ==
    LET check == IF opts[1] = "--check=none" THEN 0
                 ELSE IF opts[1] = "--check=crc32" THEN 1
                 ELSE IF opts[1] = "--check=crc64" THEN 4 ELSE 10
        bits  == CHOOSE b \in 0..40 : DictSize(b) = opts[2][2]
    IN [NoBody EXCEPT !.fmt = "xz", !.check = check, !.bits = bits,
                      !.data = raw.data, !.len = raw.len]

\* `gzip -nc` on a raw body: no name, no mtime, flags 0
GzCompress(raw) ==
    [NoBody EXCEPT !.fmt = "gz", !.flags = 0, !.data = raw.data, !.len = raw.len]

\* `xz -dc` / `gzip -ndc`
Decompress(b) == RawBody(b.data, b.len)

\* the number of bytes of a body
BodySize(b) ==
    IF b.fmt = "xz" THEN XzLen(b.len)
    ELSE IF b.fmt = "gz" THEN GzLen(b.len)
    ELSE IF b.fmt = "meta" THEN 20 + Len(b.o)
    ELSE b.len

\* json.Marshal(narExpanderMeta{...}) as a body
MetaBody(algo, opts, csize) ==
    [NoBody EXCEPT !.fmt = "meta", !.a = algo, !.o = opts, !.c = csize]

\* parseXz(buf)
parseXz(b) ==
    IF b.fmt # "xz" \/ BodySize(b) < 32 \/ b.check \notin {0, 1, 4, 10}
    THEN [err |-> TRUE, uncompressedSize |-> 0, options |-> <<>>]
    ELSE [err |-> FALSE, uncompressedSize |-> b.len + b.off,
          options |-> XzOptions(b.check, b.bits)]

\* a gate that looks at the magic bytes only (a faulty variant)
GzGateMagicOnly(b) == b.fmt = "gz" /\ BodySize(b) >= 18
\* the header gate of expandGz: gzip, deflate, no flags, 0 mtime, unix
GzGate(b) == b.fmt = "gz" /\ BodySize(b) >= 18 /\ b.flags = 0

Ent(type, path, exe, body) ==
    [type |-> type, path |-> path, exe |-> exe, size |-> BodySize(body), body |-> body]

\* readAndExpand for one entry: the entries handed to writeEnts
ExpandEntry(h) ==
    IF h.type \in {"dir", "sym"} THEN <<h>>
    ELSE IF HasSuffix(h.path, XzExt)
    THEN LET x == parseXz(h.body)
         IN IF x.err THEN <<h>>
            ELSE LET m == MetaBody("xz", x.options, h.size)
                 IN << [h EXCEPT !.path = @ \o narExpMetaSuffix, !.size = BodySize(m),
                                 !.body = m],
                       [h EXCEPT !.path = @ \o narExpDataSuffix,
                                 !.size = x.uncompressedSize,
                                 !.body = Decompress(h.body)] >>
    ELSE IF HasSuffix(h.path, GzExt)
    THEN IF ~GzGate(h.body) THEN <<h>>
         ELSE LET m == MetaBody("gz", <<>>, h.size)
              IN << [h EXCEPT !.path = @ \o narExpMetaSuffix, !.size = BodySize(m),
                              !.body = m],
                    [h EXCEPT !.path = @ \o narExpDataSuffix,
                              !.size = h.body.len + h.body.off,
                              !.body = Decompress(h.body)] >>
    ELSE <<h>>

\* a test that takes any entry after a metadata entry for its data (a
\* faulty variant)
nextIsDataAny(ents, i) == TRUE
\* narexpander.go:285: the entry after a metadata entry ends in the data
\* suffix
nextIsData(ents, i) == HasSuffix(ents[i + 1].path, narExpDataSuffix)

\* readAndCollapse at entry i of the expanded archive: the error, the entries
\* handed to writeEnts and the number of input entries consumed
CollapseAt(ents, i) ==
    LET h == ents[i]
    IN IF h.type \in {"dir", "sym"} THEN [err |-> "", out |-> <<h>>, used |-> 1]
       ELSE IF HasSuffix(h.path, narExpMetaSuffix)
       THEN IF h.body.fmt # "meta"
            THEN [err |-> "json decode", out |-> <<>>, used |-> 1]
            ELSE IF i = Len(ents)
            THEN [err |-> "unexpected EOF", out |-> <<>>, used |-> 1]
            ELSE IF ~nextIsData(ents, i)
            THEN [err |-> "bad expanded nar", out |-> <<>>, used |-> 2]
            ELSE LET d    == ents[i + 1]
                     m    == h.body
                     newH == [d EXCEPT !.path = TrimSuffix(@, narExpDataSuffix),
                                       !.size = m.c]
                 IN IF m.a = "xz"
                    THEN [err |-> "", used |-> 2,
                          out |-> <<[newH EXCEPT !.body = XzCompress(d.body, m.o)]>>]
                    ELSE IF m.a = "gz"
                    THEN [err |-> "", used |-> 2,
                          out |-> <<[newH EXCEPT !.body = GzCompress(d.body)]>>]
                    ELSE [err |-> "unexpected algo", out |-> <<>>, used |-> 2]
       ELSE [err |-> "", out |-> <<h>>, used |-> 1]

\* a writer that accepts any number of body bytes (a faulty variant)
WriteErrNever(ents) == FALSE
\* writeEnts: ioCopy fails when an entry's body is not header.size bytes long
WriteErr(ents) ==
    \E k \in 1..Len(ents) :
        ents[k].type = "reg" /\ BodySize(ents[k].body) # ents[k].size

PathA     == <<97>>
PathBXz   == <<98>> \o XzExt
PathCGz   == <<99>> \o GzExt
PathDMeta == <<100>> \o narExpMetaSuffix
PathDData == <<100>> \o narExpDataSuffix
PathE     == <<101>>

\* the entries input archives are made of: directories, symlinks, regular
\* files, xz streams written by `xz -c`, gzip members written by `gzip -nc`
\* (strict header), gzip members with the name flag set, a gzip file whose
\* trailer does not give the length of its content, files that carry the
\* expander's suffixes
EntPool ==
    { Ent("dir", PathA, FALSE, NoBody),
      Ent("sym", PathA, FALSE, NoBody),
      Ent("reg", PathA, FALSE, RawBody(1, 5)),
      Ent("reg", PathA, TRUE, XzCompress(RawBody(2, 7), XzOptions(4, 22))),
      Ent("reg", PathBXz, FALSE, XzCompress(RawBody(2, 7), XzOptions(4, 22))),
      Ent("reg", PathBXz, TRUE, XzCompress(RawBody(3, 0), XzOptions(1, 23))),
      Ent("reg", PathBXz, FALSE, RawBody(1, 5)),
      Ent("reg", PathCGz, FALSE, GzCompress(RawBody(2, 7))),
      Ent("reg", PathCGz, FALSE, [GzCompress(RawBody(2, 7)) EXCEPT !.flags = 8]),
      Ent("reg", PathCGz, FALSE, RawBody(1, 5)),
      [Ent("reg", PathCGz, FALSE, [GzCompress(RawBody(2, 7)) EXCEPT !.off = 1])
          EXCEPT !.size = GzLen(7)],
      Ent("reg", PathDMeta, FALSE, RawBody(1, 5)),
      Ent("reg", PathDMeta, FALSE, MetaBody("xz", XzOptions(4, 22), 39)),
      Ent("reg", PathDMeta, FALSE, MetaBody("bz", <<>>, 25)),
      Ent("reg", PathDData, FALSE, RawBody(2, 7)),
      Ent("reg", PathDData, FALSE, RawBody(1, 5)),
      Ent("reg", PathE, FALSE, RawBody(2, 7)) }

\* archives list their entries in strictly ascending path order
Archives ==
    UNION { { a \in [1..n -> EntPool] :
                \A k \in 1..(n - 1) : StrLess(a[k].path, a[k + 1].path) } : n \in 0..MaxEnts }

NarInit ==
    /\ nin \in Archives
    /\ npc = [phase |-> "expand", i |-> 1]
    /\ nexp = <<>>
    /\ nout = <<>>
    /\ nerr = ""

\* ExpandNar reads the next entry and writes what it becomes
NarExpandStep ==
    /\ npc.phase = "expand" /\ npc.i <= Len(nin)
    /\ LET out == ExpandEntry(nin[npc.i])
       IN IF WriteErr(out)
          THEN /\ npc' = [npc EXCEPT !.phase = "failed"]
               /\ nerr' = "expand: size"
               /\ UNCHANGED nexp
          ELSE /\ npc' = [npc EXCEPT !.i = @ + 1]
               /\ nexp' = nexp \o out
               /\ UNCHANGED nerr
    /\ UNCHANGED <<nin, nout>>

\* ExpandNar reaches the end of its input; CollapseNar starts on its output
NarExpandEnd ==
    /\ npc.phase = "expand" /\ npc.i > Len(nin)
    /\ npc' = [phase |-> "collapse", i |-> 1]
    /\ UNCHANGED <<nin, nexp, nout, nerr>>

\* CollapseNar reads the next entry (and the data entry after a metadata
\* entry) and writes what they become
NarCollapseStep ==
    /\ npc.phase = "collapse" /\ npc.i <= Len(nexp)
    /\ LET r == CollapseAt(nexp, npc.i)
       IN IF r.err # "" \/ WriteErr(r.out)
          THEN /\ npc' = [npc EXCEPT !.phase = "failed"]
               /\ nerr' = IF r.err # "" THEN r.err ELSE "collapse: size"
               /\ UNCHANGED nout
          ELSE /\ npc' = [npc EXCEPT !.i = @ + r.used]
               /\ nout' = nout \o r.out
               /\ UNCHANGED nerr
    /\ UNCHANGED <<nin, nexp>>

\* CollapseNar reaches the end of its input and closes its output
NarCollapseEnd ==
    /\ npc.phase = "collapse" /\ npc.i > Len(nexp)
    /\ npc' = [npc EXCEPT !.phase = "done"]
    /\ UNCHANGED <<nin, nexp, nout, nerr>>

NarOnly == UNCHANGED <<substVars, catVars, differVars, snapVars, sysVars, ld, pr, waitVars, bf, ex, ck, idl, ls, sf, tee, sg>>

InitNar ==
    SubstParked /\ CatParked /\ DifferParked /\ NarInit /\ SnapParked /\ SysParked /\ LoadParked /\ ProcParked /\ WaitParked
    /\ BufParked /\ ExpandParked /\ KeyParked /\ IdleParked /\ StoreParked
    /\ StrParked /\ TeeParked /\ StageParked
NextNar ==
    \/ NarExpandStep /\ NarOnly
    \/ NarExpandEnd /\ NarOnly
    \/ NarCollapseStep /\ NarOnly
    \/ NarCollapseEnd /\ NarOnly
SpecNar == InitNar /\ [][NextNar]_vars

\* C4: for every archive of directories, symlinks, regular files and
\* well-formed xz/gz files, CollapseNar(ExpandNar(A)) ends without an error
\* and yields the entries of A in order with their types, paths, sizes and
\* bytes.
C4_RoundTrip ==
    npc.phase \in {"done", "failed"} => (nerr = "" /\ nout = nin)

\* entry i of ents is a metadata entry that decodes and is the last entry,
\* or is followed by an entry without the data suffix, or names an
\* algorithm other than xz and gz
BadRecord(ents, i) ==
    /\ ents[i].type = "reg" /\ HasSuffix(ents[i].path, narExpMetaSuffix)
    /\ ents[i].body.fmt = "meta"
    /\ \/ i = Len(ents)
       \/ ~HasSuffix(ents[i + 1].path, narExpDataSuffix)
       \/ ents[i].body.a \notin {"xz", "gz"}

\* C35: when CollapseNar comes to a metadata entry that is the last entry of
\* its input, or whose next entry does not end in the data suffix, or that
\* names an algorithm other than xz or gz, it ends its output with an error
\* and emits no entry for that record; the entries written before stay
\* written.
C35_BadRecordFails ==
    [][(npc.phase = "collapse" /\ npc.i <= Len(nexp) /\ BadRecord(nexp, npc.i))
          => (npc'.phase = "failed" /\ nerr' # "" /\ nout' = nout)]_vars

C35_Witness ==
    /\ npc.phase = "failed" /\ nerr = "unexpected EOF" /\ nout # <<>>
    /\ npc.i \in 1..Len(nexp) /\ BadRecord(nexp, npc.i)

\* a compressed file that ExpandNar decompresses and whose index or trailer
\* records a size other than the length of what the decompressor writes
DecompMismatch(e) ==
    /\ e.type = "reg" /\ e.body.off # 0
    /\ \/ HasSuffix(e.path, XzExt) /\ ~parseXz(e.body).err
       \/ ~HasSuffix(e.path, XzExt) /\ HasSuffix(e.path, GzExt) /\ GzGate(e.body)

\* a metadata and data pair at i whose recompressor writes a number of
\* bytes other than the recorded compressed size c
RecompMismatch(ents, i) ==
    /\ i < Len(ents)
    /\ ents[i].type = "reg" /\ HasSuffix(ents[i].path, narExpMetaSuffix)
    /\ ents[i].body.fmt = "meta" /\ ents[i].body.a \in {"xz", "gz"}
    /\ HasSuffix(ents[i + 1].path, narExpDataSuffix)
    /\ ents[i].body.c # (IF ents[i].body.a = "xz" THEN XzLen(ents[i + 1].body.len)
                         ELSE GzLen(ents[i + 1].body.len))

SizesExact(ents) ==
    \A k \in 1..Len(ents) :
        ents[k].type = "reg" => BodySize(ents[k].body) = ents[k].size

\* C36: every entry ExpandNar or CollapseNar has written carries exactly
\* header.size body bytes; an entry whose decompressor writes a length
\* other than the size recovered from the xz index or gzip trailer, or
\* whose recompressor writes a length other than the recorded c, makes the
\* stream fail: no stream with such an entry completes.
C36_SizesExactOrFail ==
    /\ SizesExact(nexp) /\ SizesExact(nout)
    /\ npc.phase \in {"collapse", "done"} =>
          \A k \in 1..Len(nin) : ~DecompMismatch(nin[k])
    /\ npc.phase = "done" =>
          \A i \in 1..Len(nexp) : ~RecompMismatch(nexp, i)
    /\ npc.phase = "expand" =>
          \A k \in 1..(npc.i - 1) : ~DecompMismatch(nin[k])
    /\ (npc.phase = "failed" /\ nerr = "expand: size") =>
          DecompMismatch(nin[npc.i])

C36_Witness ==
    /\ npc.phase = "failed" /\ nerr = "expand: size"
    /\ npc.i \in 1..Len(nin) /\ DecompMismatch(nin[npc.i]) /\ nexp # <<>>

C36_WitnessRecompress ==
    /\ npc.phase = "failed" /\ nerr = "collapse: size"
    /\ npc.i \in 1..(Len(nexp) - 1) /\ RecompMismatch(nexp, npc.i)

\* a regular entry named *.gz whose body is shorter than 18 bytes or does
\* not start with the header 1F 8B 08 00 00 00 00 00 00 03
PlainGz(e) ==
    /\ e.type = "reg" /\ HasSuffix(e.path, GzExt)
    /\ (BodySize(e.body) < 18 \/ e.body.fmt # "gz" \/ e.body.flags # 0)

\* the entries of the archive a that are named path
Named(a, path) == {m \in 1..Len(a) : a[m].path = path}

\* the archive a holds e once under its path, as it is, and no metadata or
\* data entry made from it
KeptIn(a, e) ==
    /\ \E m \in 1..Len(a) : a[m] = e /\ Named(a, e.path) = {m}
    /\ Named(a, e.path \o narExpMetaSuffix) = {}
    /\ Named(a, e.path \o narExpDataSuffix) = {}

\* C25: a regular entry whose path ends in .gz and whose body is shorter
\* than 18 bytes or does not start with the exact 10-byte gzip header is
\* emitted by ExpandNar unchanged (same path, size and bytes, no metadata or
\* data entry), and CollapseNar leaves that entry unchanged too.
C25_PlainGzUntouched ==
    /\ \A k \in 1..Len(nin) :
          (PlainGz(nin[k])
             /\ (npc.phase \in {"collapse", "done"}
                    \/ (npc.phase = "expand" /\ k < npc.i)))
          => KeptIn(nexp, nin[k])
    /\ \A m \in 1..Len(nexp) :
          (PlainGz(nexp[m])
             /\ (npc.phase = "done" \/ (npc.phase = "collapse" /\ m < npc.i)))
          => KeptIn(nout, nexp[m])

C25_Witness ==
    /\ npc.phase = "done"
    /\ \E k \in 1..Len(nin) :
          /\ PlainGz(nin[k]) /\ nin[k].body.fmt = "gz" /\ BodySize(nin[k].body) >= 18
          /\ KeptIn(nexp, nin[k]) /\ KeptIn(nout, nin[k])

====
